---- MODULE Spec2Model ----
(***************************************************************************)
(* Daily Notes application: authentication (simple_auth.py, auth_ui.py),   *)
(* the relational store (database.py), SMTP delivery (email_sender.py) and *)
(* the Summary page's Send Email flow (pages/0_Summary.py).                *)
(*                                                                         *)
(* Three specifications share the module: SpecAuth (users table and the    *)
(* browser session), SpecMail (send_email and the Send Email flow) and     *)
(* SpecTags (tags, notes and their associations).                          *)
(***************************************************************************)
EXTENDS Integers, Sequences, FiniteSets, TLC

VARIABLES
    dbUp,          \* whether get_connection() currently yields a connection
    now,           \* CURRENT_TIMESTAMP of the database, a logical clock
    app_users,     \* table app_users: id -> row
    nextUserId,    \* the SERIAL sequence of app_users.id
    session,       \* st.session_state of one browser session: key -> value
    authOp,        \* the last authentication handler run and what it returned
    reg,           \* register_user calls in progress, one per caller
    smtpEnv,       \* where an [smtp] configuration is found, and its settings
    sent_emails,   \* table sent_emails: id -> row
    nextEmailId,   \* the SERIAL sequence of sent_emails.id
    flow,          \* position of the Summary page's Send Email handler
    mailOp,        \* the last send_email call: arguments, outcome, SMTP steps
    tags,          \* table tags (committed rows): id -> row
    nextTagId,     \* the SERIAL sequence of tags.id
    notes,         \* table notes: id -> row
    nextNoteId,    \* the SERIAL sequence of notes.id
    note_tags,     \* table note_tags: set of <<note_id, tag_id>>
    txn,           \* open create_tag transactions, one per connection
    tagOp,         \* the last DatabaseManager call made directly and its result
    call,          \* the last call of a constructor or pure function: inputs, result
    manager_info,  \* columns manager_name, manager_email of app_users: id -> values
    summaryOp,     \* the last script run of the Summary page and what it showed
    updTxn         \* update_note_with_tag calls in progress, one per connection

authVars == <<now, app_users, nextUserId, session, authOp, reg>>
mailVars == <<smtpEnv, sent_emails, nextEmailId, flow, mailOp>>
tagVars  == <<tags, nextTagId, notes, nextNoteId, note_tags, txn, tagOp>>
pageVars == <<manager_info, summaryOp, updTxn>>
vars     == <<dbUp, authVars, mailVars, tagVars, call, pageVars>>

(***************************************************************************)
(* Python's Optional: None is the empty tuple, a present value x is <<x>>. *)
(* Text that the code inspects by character is a sequence of characters.   *)
(***************************************************************************)
None    == <<>>
Some(x) == <<x>>
Val(o)  == o[1]

IsSpace(c) == c \in {" ", "\t", "\n", "\r", "\f"}

\* str.lstrip(): the text from its first character that is not whitespace
lstrip(s) ==
    IF \A i \in 1..Len(s) : IsSpace(s[i])
    THEN <<>>
    ELSE SubSeq(s, CHOOSE i \in 1..Len(s) :
                      ~IsSpace(s[i]) /\ \A j \in 1..i - 1 : IsSpace(s[j]),
                   Len(s))

\* str.rstrip(): the text up to its last character that is not whitespace
rstrip(s) ==
    IF \A i \in 1..Len(s) : IsSpace(s[i])
    THEN <<>>
    ELSE SubSeq(s, 1, CHOOSE i \in 1..Len(s) :
                         ~IsSpace(s[i]) /\ \A j \in i + 1..Len(s) : IsSpace(s[j]))

\* str.strip()
strip(s) == rstrip(lstrip(s))

\* "c in s" for a one-character c
Contains(s, c) == \E i \in 1..Len(s) : s[i] = c

(***************************************************************************)
(* Bounds of the model.                                                    *)
(***************************************************************************)
MaxUsers  == 2     \* rows app_users may hold

(***************************************************************************)
(* Authentication: simple_auth.py                                          *)
(***************************************************************************)
\* _load_auth_config: 'password_min_length': 6
password_min_length == 6

PwAdmin  == <<"a", "d", "m", "i", "n", "1", "2", "3">>
PwSecret == <<"s", "e", "c", "r", "e", "t">>
PwShort  == <<"a", "b", "c">>
PwPadded == <<" ", "p", "a", "s", "s", "w", "d">>
Passwords == {PwAdmin, PwSecret, PwShort, PwPadded, <<>>}

Usernames == {"admin", "bob", ""}
EmailOf(username) == IF username = "" THEN "" ELSE username \o "@example.com"
\* salts bcrypt.gensalt() may draw
Salts == {1, 2}

\* hash_password: bcrypt's digest depends on the salt and the password, and the
\* hash string carries the salt.
hash_password(password, salt) ==
    [alg |-> "bcrypt", salt |-> salt, digest |-> <<salt, password>>]

\* verify_password: bcrypt.checkpw recomputes the digest with the hash's salt;
\* a stored value that is no bcrypt hash raises, which gives False.
verify_password(password, hashed) ==
    IF DOMAIN hashed # {"alg", "salt", "digest"} THEN FALSE
    ELSE hashed.digest = <<hashed.salt, password>>

validate_password(password) ==
    IF Len(password) < password_min_length THEN FALSE
    ELSE IF Len(strip(password)) # Len(password) THEN FALSE
    ELSE TRUE

(***************************************************************************)
(* app_users queries: database.py                                          *)
(***************************************************************************)
UserRow(table, i) ==
    [id |-> i,
     username |-> table[i].username,
     email |-> table[i].email,
     password_hash |-> table[i].password_hash,
     display_name |-> table[i].display_name,
     is_active |-> table[i].is_active,
     last_login |-> table[i].last_login]

\* SELECT id, username, email, password_hash, display_name, is_active, ...,
\*        last_login FROM app_users WHERE username = %s AND is_active = TRUE
get_user_by_username(table, username) ==
    IF ~dbUp THEN None
    ELSE LET ids == {i \in DOMAIN table :
                        table[i].username = username /\ table[i].is_active}
         IN IF ids = {} THEN None
            ELSE Some(UserRow(table, CHOOSE j \in ids : TRUE))

\* ... FROM app_users WHERE email = %s AND is_active = TRUE
get_user_by_email(table, email) ==
    IF ~dbUp THEN None
    ELSE LET ids == {i \in DOMAIN table :
                        table[i].email = email /\ table[i].is_active}
         IN IF ids = {} THEN None
            ELSE Some(UserRow(table, CHOOSE j \in ids : TRUE))

\* SELECT id, username, email, display_name, is_active, created_at, updated_at,
\*        last_login FROM app_users WHERE id = %s AND is_active = TRUE
\* The column list holds no password_hash.
get_user_by_id(table, user_id) ==
    IF ~dbUp THEN None
    ELSE IF user_id \in DOMAIN table /\ table[user_id].is_active
         THEN Some([id |-> user_id,
                    username |-> table[user_id].username,
                    email |-> table[user_id].email,
                    display_name |-> table[user_id].display_name,
                    is_active |-> table[user_id].is_active,
                    last_login |-> table[user_id].last_login])
         ELSE None

\* INSERT INTO app_users (username, email, password_hash, display_name)
\* RETURNING id: username and email are UNIQUE over all rows, active or not; a
\* violation is a psycopg2.Error, rolled back, and gives None. Ids are handed out
\* in order (an id a failed insert consumed is not tracked).
\* Result: [id |-> Optional id, table |-> app_users afterwards]
create_user_with_auth(table, username, email, password_hash, display_name) ==
    IF ~dbUp THEN [id |-> None, table |-> table]
    ELSE IF \E i \in DOMAIN table :
                table[i].username = username \/ table[i].email = email
         THEN [id |-> None, table |-> table]
         ELSE [id |-> Some(nextUserId),
               table |-> [i \in DOMAIN table \cup {nextUserId} |->
                            IF i = nextUserId
                            THEN [username |-> username, email |-> email,
                                  password_hash |-> password_hash,
                                  display_name |-> display_name,
                                  is_active |-> TRUE, last_login |-> None]
                            ELSE table[i]]]

\* UPDATE app_users SET last_login = CURRENT_TIMESTAMP WHERE id = %s
update_user_last_login(table, user_id) ==
    IF dbUp /\ user_id \in DOMAIN table
    THEN [table EXCEPT ![user_id].last_login = Some(now)]
    ELSE table

\* update_user_last_login: return cursor.rowcount > 0, False without connection
update_user_last_login_result(table, user_id) ==
    dbUp /\ user_id \in DOMAIN table

\* A faulty update_user_password that does not notice the missing connection
\* (told apart by C16)
update_user_password_Connected(table, user_id, password_hash) ==
    IF user_id \in DOMAIN table
    THEN [ok |-> TRUE,
          table |-> [table EXCEPT ![user_id].password_hash = password_hash]]
    ELSE [ok |-> FALSE, table |-> table]

\* UPDATE app_users SET password_hash = %s WHERE id = %s; returns rowcount > 0
\* Result: [ok |-> BOOLEAN, table |-> app_users afterwards]
update_user_password(table, user_id, password_hash) ==
    IF dbUp /\ user_id \in DOMAIN table
    THEN [ok |-> TRUE,
          table |-> [table EXCEPT ![user_id].password_hash = password_hash]]
    ELSE [ok |-> FALSE, table |-> table]

(***************************************************************************)
(* SimpleAuthService: simple_auth.py                                       *)
(***************************************************************************)
\* register_user. Result: [user |-> Optional row, table |-> app_users afterwards]
register_user(table, username, email, password, display_name, salt) ==
    IF username = "" \/ email = "" \/ password = <<>>
    THEN [user |-> None, table |-> table]
    ELSE IF ~validate_password(password) THEN [user |-> None, table |-> table]
    ELSE IF get_user_by_username(table, username) # None
         THEN [user |-> None, table |-> table]
    ELSE IF get_user_by_email(table, email) # None
         THEN [user |-> None, table |-> table]
    ELSE LET made == create_user_with_auth(table, username, email,
                        hash_password(password, salt),
                        IF display_name = "" THEN username ELSE display_name)
         IN IF made.id # None
            THEN [user |-> get_user_by_id(made.table, Val(made.id)),
                  table |-> made.table]
            ELSE [user |-> None, table |-> made.table]

\* A faulty login_user that does not verify the password (told apart by C5)
login_user_NoVerify(table, username, password) ==
    IF username = "" \/ password = <<>> THEN [user |-> None, table |-> table]
    ELSE LET user == get_user_by_username(table, username)
         IN IF user = None THEN [user |-> None, table |-> table]
            ELSE [user |-> user,
                  table |-> update_user_last_login(table, Val(user).id)]

\* login_user. Result: [user |-> Optional row, table |-> app_users afterwards]
\* The row returned is the one read before last_login was updated.
login_user(table, username, password) ==
    IF username = "" \/ password = <<>> THEN [user |-> None, table |-> table]
    ELSE LET user == get_user_by_username(table, username)
         IN IF user = None THEN [user |-> None, table |-> table]
            ELSE IF ~verify_password(password, Val(user).password_hash)
                 THEN [user |-> None, table |-> table]
            ELSE [user |-> user,
                  table |-> update_user_last_login(table, Val(user).id)]

\* change_password. user['password_hash'] on a row that has no such key raises
\* KeyError, which "except Exception" turns into False.
\* Result: [ok |-> BOOLEAN, table |-> app_users afterwards]
change_password(table, user_id, old_password, new_password, salt) ==
    LET user == get_user_by_id(table, user_id)
    IN IF user = None THEN [ok |-> FALSE, table |-> table]
       ELSE IF "password_hash" \notin DOMAIN Val(user)
            THEN [ok |-> FALSE, table |-> table]
       ELSE IF ~verify_password(old_password, Val(user).password_hash)
            THEN [ok |-> FALSE, table |-> table]
       ELSE IF ~validate_password(new_password)
            THEN [ok |-> FALSE, table |-> table]
       ELSE update_user_password(table, user_id,
                                 hash_password(new_password, salt))

(***************************************************************************)
(* st.session_state and the functions reading it                           *)
(***************************************************************************)
SGet(s, k, default) == IF k \in DOMAIN s THEN s[k] ELSE default
SSet(s, k, v) == [x \in DOMAIN s \cup {k} |-> IF x = k THEN v ELSE s[x]]
SDefault(s, k, v) == IF k \in DOMAIN s THEN s ELSE SSet(s, k, v)
SDel(s, keys) == [x \in DOMAIN s \ keys |-> s[x]]

\* initialize_auth_session_state
initialize_auth_session_state(s) ==
    SDefault(SDefault(SDefault(SDefault(SDefault(SDefault(s,
        "authenticated", FALSE),
        "user_id", None),
        "username", None),
        "user_email", None),
        "user_display_name", None),
        "show_register", FALSE)

\* logout_user: deletes the authentication keys that are present
auth_keys == {"authenticated", "user_id", "username", "user_email",
              "user_display_name", "login_time"}
\* A faulty logout_user that leaves 'authenticated' in place (told apart by C6)
logout_user_KeepsFlag(s) == SDel(s, auth_keys \ {"authenticated"})

logout_user(s) == SDel(s, auth_keys)

\* is_authenticated: st.session_state.get('authenticated', False)
is_authenticated(s) == SGet(s, "authenticated", FALSE)

\* get_current_user
get_current_user(s) ==
    IF is_authenticated(s)
    THEN Some([id |-> SGet(s, "user_id", None),
               username |-> SGet(s, "username", None),
               email |-> SGet(s, "user_email", None),
               display_name |-> SGet(s, "user_display_name", None),
               login_time |-> SGet(s, "login_time", None)])
    ELSE None

\* login_form, lines 44-51: the session after login_user returned user_data
StoreLogin(s, user_data) ==
    SSet(SSet(SSet(SSet(SSet(SSet(s,
        "authenticated", TRUE),
        "user_id", Some(user_data.id)),
        "username", Some(user_data.username)),
        "user_email", Some(user_data.email)),
        "user_display_name", Some(user_data.display_name)),
        "login_time", user_data.last_login)

\* authentication_page: which form a run of an unauthenticated session shows
FormShown(s) ==
    IF SGet(s, "show_change_password", FALSE) THEN "change_password"
    ELSE IF s["show_register"] THEN "register"
    ELSE "login"

(***************************************************************************)
(* The authentication pages: auth_ui.py. One action is one script run of   *)
(* the session, started by the widget the user acted on.                   *)
(***************************************************************************)
Emails == {"admin@example.com", "bob@example.com", ""}

AuthRec(op, ok, user, username, password, new_password) ==
    [op |-> op, ok |-> ok, user |-> user, username |-> username,
     password |-> password, new_password |-> new_password]

UnchangedByAuth == UNCHANGED <<dbUp, now, reg, mailVars, tagVars, call, pageVars>>

\* require_authentication on a run in which no form is submitted
require_authentication ==
    LET s1 == initialize_auth_session_state(session)
    IN /\ session' = s1
       /\ authOp' = AuthRec("require_authentication", s1["authenticated"],
                            get_current_user(s1), "", <<>>, <<>>)
       /\ UNCHANGED <<app_users, nextUserId>>
       /\ UnchangedByAuth

\* login_form, "Login" submitted
login_form(username, password) ==
    LET s1 == initialize_auth_session_state(session)
        r  == IF username # "" /\ password # <<>>
              THEN login_user(app_users, username, password)
              ELSE [user |-> None, table |-> app_users]
    IN /\ ~s1["authenticated"]
       /\ FormShown(s1) = "login"
       /\ app_users' = r.table
       /\ session' = IF r.user # None THEN StoreLogin(s1, Val(r.user)) ELSE s1
       /\ authOp' = AuthRec("login_form", r.user # None, r.user,
                            username, password, <<>>)
       /\ UNCHANGED nextUserId
       /\ UnchangedByAuth

\* login_form, "Change Password" submitted
login_form_change_password ==
    LET s1 == initialize_auth_session_state(session)
    IN /\ ~s1["authenticated"]
       /\ FormShown(s1) = "login"
       /\ session' = SSet(s1, "show_change_password", TRUE)
       /\ authOp' = AuthRec("show_change_password", FALSE, None, "", <<>>, <<>>)
       /\ UNCHANGED <<app_users, nextUserId>>
       /\ UnchangedByAuth

\* login_form, "Register" clicked
login_form_register ==
    LET s1 == initialize_auth_session_state(session)
    IN /\ ~s1["authenticated"]
       /\ FormShown(s1) = "login"
       /\ session' = SSet(s1, "show_register", TRUE)
       /\ authOp' = AuthRec("show_register", FALSE, None, "", <<>>, <<>>)
       /\ UNCHANGED <<app_users, nextUserId>>
       /\ UnchangedByAuth

\* registration_form, "Create Account" submitted
registration_form(username, display_name, email, password, confirm_password, salt) ==
    LET s1 == initialize_auth_session_state(session)
        filled == username # "" /\ display_name # "" /\ email # ""
                  /\ password # <<>> /\ confirm_password # <<>>
        r  == IF filled /\ password = confirm_password
              THEN register_user(app_users, username, email, password,
                                 display_name, salt)
              ELSE [user |-> None, table |-> app_users]
    IN /\ ~s1["authenticated"]
       /\ FormShown(s1) = "register"
       /\ nextUserId <= MaxUsers
       /\ app_users' = r.table
       /\ nextUserId' = IF DOMAIN r.table # DOMAIN app_users
                        THEN nextUserId + 1 ELSE nextUserId
       /\ session' = IF r.user # None THEN SSet(s1, "show_register", FALSE) ELSE s1
       /\ authOp' = AuthRec("registration_form", r.user # None, r.user,
                            username, password, <<>>)
       /\ UnchangedByAuth

\* registration_form, "Back to Login" submitted
registration_form_back ==
    LET s1 == initialize_auth_session_state(session)
    IN /\ ~s1["authenticated"]
       /\ FormShown(s1) = "register"
       /\ session' = SSet(s1, "show_register", FALSE)
       /\ authOp' = AuthRec("back_to_login", FALSE, None, "", <<>>, <<>>)
       /\ UNCHANGED <<app_users, nextUserId>>
       /\ UnchangedByAuth

\* change_password_form, "Change Password" submitted: login_user with the
\* current password, then change_password for the user it returned
change_password_form(username, old_password, new_password, confirm_password, salt) ==
    LET s1 == initialize_auth_session_state(session)
        filled == username # "" /\ old_password # <<>>
                  /\ new_password # <<>> /\ confirm_password # <<>>
        go == filled /\ new_password = confirm_password
        li == IF go THEN login_user(app_users, username, old_password)
              ELSE [user |-> None, table |-> app_users]
        cp == IF li.user # None
              THEN change_password(li.table, Val(li.user).id, old_password,
                                   new_password, salt)
              ELSE [ok |-> FALSE, table |-> li.table]
    IN /\ ~s1["authenticated"]
       /\ FormShown(s1) = "change_password"
       /\ app_users' = cp.table
       /\ session' = IF cp.ok THEN SSet(s1, "show_change_password", FALSE) ELSE s1
       /\ authOp' = AuthRec("change_password_form", cp.ok, li.user,
                            username, old_password, new_password)
       /\ UNCHANGED nextUserId
       /\ UnchangedByAuth

\* change_password_form, "Back to Login" submitted
change_password_form_back ==
    LET s1 == initialize_auth_session_state(session)
    IN /\ ~s1["authenticated"]
       /\ FormShown(s1) = "change_password"
       /\ session' = SSet(s1, "show_change_password", FALSE)
       /\ authOp' = AuthRec("back_to_login", FALSE, None, "", <<>>, <<>>)
       /\ UNCHANGED <<app_users, nextUserId>>
       /\ UnchangedByAuth

\* logout_button, "Logout" clicked: logout_user, then st.rerun()
logout_button ==
    LET s1 == initialize_auth_session_state(session)
    IN /\ s1["authenticated"]
       /\ session' = logout_user(s1)
       /\ authOp' = AuthRec("logout_user", TRUE, None, "", <<>>, <<>>)
       /\ UNCHANGED <<app_users, nextUserId>>
       /\ UnchangedByAuth

\* show_user_profile (Settings page), "Change Password" clicked
show_user_profile ==
    LET s1 == initialize_auth_session_state(session)
    IN /\ s1["authenticated"]
       /\ session' = SSet(s1, "show_change_password", TRUE)
       /\ authOp' = AuthRec("show_change_password", FALSE, None, "", <<>>, <<>>)
       /\ UNCHANGED <<app_users, nextUserId>>
       /\ UnchangedByAuth

\* The database becomes unreachable, or reachable again (get_connection)
get_connection ==
    /\ dbUp' = ~dbUp
    /\ UNCHANGED <<authVars, mailVars, tagVars, call, pageVars>>

(***************************************************************************)
(* SMTP delivery: email_sender.py                                          *)
(***************************************************************************)
\* What one configuration source holds: no usable [smtp] section ("absent":
\* HOST or PORT missing), HOST and a numeric PORT ("ok"), or HOST and a PORT
\* that int() rejects ("badport").
SourceKinds == {"absent", "ok", "badport"}

SourceCfg(env, host) ==
    [HOST |-> host, PORT |-> 587, USER |-> env.USER, PASSWORD |-> env.PASSWORD,
     USE_TLS |-> env.USE_TLS, USE_SSL |-> env.USE_SSL]

\* get_smtp_config: Streamlit secrets, then .streamlit/secrets.toml, then the
\* environment. Only the first source's int(PORT) runs inside try/except.
\* Result: [raised |-> "" or the exception's type, cfg |-> Optional config]
get_smtp_config(env) ==
    IF env.st = "ok" THEN [raised |-> "", cfg |-> Some(SourceCfg(env, "st.secrets"))]
    ELSE IF env.file = "ok"
         THEN [raised |-> "", cfg |-> Some(SourceCfg(env, "secrets.toml"))]
    ELSE IF env.file = "badport" THEN [raised |-> "ValueError", cfg |-> None]
    ELSE IF env.env = "ok"
         THEN [raised |-> "", cfg |-> Some(SourceCfg(env, "environ"))]
    ELSE IF env.env = "badport" THEN [raised |-> "ValueError", cfg |-> None]
    ELSE [raised |-> "", cfg |-> None]

\* How the server answers: the step at which it fails (or "none"), and whether
\* starttls() works, raises SMTPNotSupportedError, or is not reached.
FailPoints == {"none", "connect", "ehlo", "starttls", "ehlo2", "login", "send_message"}
ServerBehaviours == [failAt : FailPoints, tls_supported : BOOLEAN]

\* A faulty dialogue that logs in before STARTTLS (told apart by C9)
SmtpDialogue_LoginFirst(cfg, srv) ==
    LET wantTls   == cfg.USE_TLS /\ ~cfg.USE_SSL
        wantLogin == cfg.USER # "" /\ cfg.PASSWORD # ""
        s2 == <<IF cfg.USE_SSL THEN "SMTP_SSL" ELSE "SMTP", "ehlo">>
        s3 == IF wantLogin THEN s2 \o <<"login">> ELSE s2
        s4 == IF wantTls THEN s3 \o <<"starttls">> ELSE s3
        s5 == IF wantTls /\ srv.tls_supported THEN s4 \o <<"ehlo">> ELSE s4
    IN [ok |-> srv.failAt = "none", steps |-> s5 \o <<"send_message">>]

\* send_email, lines 142-165: the calls made on the server, in order, the failing
\* one included. SMTPNotSupportedError from starttls() is swallowed and the
\* second ehlo skipped.
\* Result: [ok |-> BOOLEAN, steps |-> sequence of calls]
SmtpDialogue(cfg, srv) ==
    LET wantTls   == cfg.USE_TLS /\ ~cfg.USE_SSL
        wantLogin == cfg.USER # "" /\ cfg.PASSWORD # ""
        s1 == <<IF cfg.USE_SSL THEN "SMTP_SSL" ELSE "SMTP">>
        s2 == s1 \o <<"ehlo">>
        s3 == IF wantTls THEN s2 \o <<"starttls">> ELSE s2
        s4 == IF wantTls /\ srv.tls_supported THEN s3 \o <<"ehlo">> ELSE s3
        s5 == IF wantLogin THEN s4 \o <<"login">> ELSE s4
        s6 == s5 \o <<"send_message">>
    IN IF srv.failAt = "connect" THEN [ok |-> FALSE, steps |-> s1]
       ELSE IF srv.failAt = "ehlo" THEN [ok |-> FALSE, steps |-> s2]
       ELSE IF wantTls /\ srv.tls_supported /\ srv.failAt = "starttls"
            THEN [ok |-> FALSE, steps |-> s3]
       ELSE IF wantTls /\ srv.tls_supported /\ srv.failAt = "ehlo2"
            THEN [ok |-> FALSE, steps |-> s4]
       ELSE IF wantLogin /\ srv.failAt = "login" THEN [ok |-> FALSE, steps |-> s5]
       ELSE IF srv.failAt = "send_message" THEN [ok |-> FALSE, steps |-> s6]
       ELSE [ok |-> TRUE, steps |-> s6]

\* send_email. get_smtp_config() is called outside the try block, so what it
\* raises leaves send_email as it is; everything raised inside the try block
\* leaves as EmailSendError. No path returns False.
\* Result: [outcome |-> "True" or the exception's type, steps |-> SMTP calls,
\*          msg |-> Optional message built]
send_email(env, to_address, subject, body, srv) ==
    LET got == get_smtp_config(env)
        to  == strip(to_address)
    IN IF got.raised # "" THEN [outcome |-> got.raised, steps |-> <<>>, msg |-> None]
       ELSE IF got.cfg = None
            THEN [outcome |-> "EmailSendError", steps |-> <<>>, msg |-> None]
       ELSE IF to = <<>> \/ ~Contains(to, "@")
            THEN [outcome |-> "EmailSendError", steps |-> <<>>, msg |-> None]
       ELSE LET d == SmtpDialogue(Val(got.cfg), srv)
                msg == [To |-> to,
                        Subject |-> IF subject = "" THEN "Weekly Update" ELSE subject,
                        Body |-> body]
            IN [outcome |-> IF d.ok THEN "True" ELSE "EmailSendError",
                steps |-> d.steps, msg |-> Some(msg)]

(***************************************************************************)
(* sent_emails: database.py                                                *)
(***************************************************************************)
MaxEmails == 2     \* rows sent_emails may hold

\* A faulty save_sent_email that returns the id of a row it never commits
\* (told apart by C4)
save_sent_email_NoCommit(table, user_id, to_email, subject, body, status) ==
    IF ~dbUp THEN [id |-> None, table |-> table]
    ELSE [id |-> Some(nextEmailId), table |-> table]

\* save_sent_email: INSERT INTO sent_emails ... RETURNING id, committed
\* Result: [id |-> Optional id, table |-> sent_emails afterwards]
save_sent_email(table, user_id, to_email, subject, body, status) ==
    IF ~dbUp THEN [id |-> None, table |-> table]
    ELSE [id |-> Some(nextEmailId),
          table |-> [i \in DOMAIN table \cup {nextEmailId} |->
                       IF i = nextEmailId
                       THEN [user_id |-> user_id, to_email |-> to_email,
                             subject |-> subject, body |-> body,
                             status |-> status, error_message |-> None]
                       ELSE table[i]]]

\* update_sent_email_status: UPDATE sent_emails SET status, error_message
\* WHERE id = %s; returns rowcount > 0
\* Result: [ok |-> BOOLEAN, table |-> sent_emails afterwards]
update_sent_email_status(table, email_id, status, error_message) ==
    IF dbUp /\ email_id \in DOMAIN table
    THEN [ok |-> TRUE,
          table |-> [table EXCEPT ![email_id].status = status,
                                  ![email_id].error_message = error_message]]
    ELSE [ok |-> FALSE, table |-> table]

(***************************************************************************)
(* send_email called on its own, and the Summary page's Send Email handler *)
(* (pages/0_Summary.py, lines 128-154), which runs in three steps: the     *)
(* record is saved, send_email is called, the record's status is updated.  *)
(***************************************************************************)
RcptBoss   == <<"b", "@", "x">>
RcptPadded == <<" ", "b", "@", "x", " ">>
RcptNoAt   == <<"b", "o", "s", "s">>
RcptBlank  == <<" ">>
Recipients == {RcptBoss, RcptPadded, RcptNoAt, RcptBlank, <<>>}
Subjects   == {"", "Subject A"}
Bodies     == {"Hello body"}

\* The signed-in user of the Summary page
SummaryUser == 1

MailRec(by, to, subject, body, srv, r) ==
    [called |-> TRUE, by |-> by, to |-> to, subject |-> subject, body |-> body,
     srv |-> srv, outcome |-> r.outcome, steps |-> r.steps, msg |-> r.msg]

IdleFlow ==
    [pc |-> "idle", to |-> <<>>, subject |-> "", body |-> "",
     email_id |-> None, outcome |-> ""]

UnchangedByMail == UNCHANGED <<dbUp, authVars, tagVars, smtpEnv, call, pageVars>>

\* send_email(to_address, subject, body), called directly
send_email_call(to_address, subject, body, srv) ==
    /\ mailOp' = MailRec("call", to_address, subject, body, srv,
                         send_email(smtpEnv, to_address, subject, body, srv))
    /\ UNCHANGED <<sent_emails, nextEmailId, flow>>
    /\ UnchangedByMail

\* "Send Email" clicked, lines 128-138: the recipient is checked untrimmed, then
\* the email is saved as 'queued'; email_id is None when that failed
summary_send_clicked(recipient_input, subject, body) ==
    /\ flow.pc = "idle"
    /\ nextEmailId <= MaxEmails
    /\ IF recipient_input = <<>> \/ ~Contains(recipient_input, "@")
       THEN UNCHANGED <<sent_emails, nextEmailId>>
            /\ flow' = [IdleFlow EXCEPT !.pc = "done", !.to = recipient_input]
       ELSE LET r == save_sent_email(sent_emails, SummaryUser, recipient_input,
                                     subject, body, "queued")
            IN /\ sent_emails' = r.table
               /\ nextEmailId' = IF r.id # None THEN nextEmailId + 1 ELSE nextEmailId
               /\ flow' = [pc |-> "saved", to |-> recipient_input,
                           subject |-> subject, body |-> body,
                           email_id |-> r.id, outcome |-> ""]
    /\ UNCHANGED mailOp
    /\ UnchangedByMail

\* lines 141-142: ok = send_email(recipient_input, subject, body)
summary_send_email(srv) ==
    /\ flow.pc = "saved"
    /\ LET r == send_email(smtpEnv, flow.to, flow.subject, flow.body, srv)
       IN /\ mailOp' = MailRec("page", flow.to, flow.subject, flow.body, srv, r)
          /\ flow' = [flow EXCEPT !.pc = "returned", !.outcome = r.outcome]
    /\ UNCHANGED <<sent_emails, nextEmailId>>
    /\ UnchangedByMail

\* lines 143-154: the status is recorded when there is a record; the handler
\* catches EmailSendError only, any other exception ends the script run
summary_record_status ==
    /\ flow.pc = "returned"
    /\ LET r == IF flow.email_id = None THEN [ok |-> FALSE, table |-> sent_emails]
                ELSE IF flow.outcome = "True"
                     THEN update_sent_email_status(sent_emails, Val(flow.email_id),
                                                   "sent", None)
                ELSE IF flow.outcome = "False"
                     THEN update_sent_email_status(sent_emails, Val(flow.email_id),
                                                   "failed", Some("Unknown error"))
                ELSE IF flow.outcome = "EmailSendError"
                     THEN update_sent_email_status(sent_emails, Val(flow.email_id),
                                                   "failed", Some("str(e)"))
                ELSE [ok |-> FALSE, table |-> sent_emails]
       IN sent_emails' = r.table
    /\ flow' = [flow EXCEPT !.pc = "done"]
    /\ UNCHANGED <<nextEmailId, mailOp>>
    /\ UnchangedByMail

\* The next script run of the page
summary_rerun ==
    /\ flow.pc = "done"
    /\ flow' = IdleFlow
    /\ UNCHANGED <<sent_emails, nextEmailId, mailOp>>
    /\ UnchangedByMail

(***************************************************************************)
(* Tags, notes and their associations: database.py                         *)
(***************************************************************************)
MaxTags  == 2      \* rows the tags sequence hands out
MaxNotes == 1      \* rows the notes sequence hands out
MaxText  == 5      \* characters of a text handed to a utility function

\* Two connections may run create_tag at the same time
Workers == {1, 2}

NameWork   == <<"W", "o", "r", "k">>
NameWorkSp == <<" ", "W", "o", "r", "k", " ">>
NameHome   == <<"H", "o", "m", "e">>
TagNames   == {NameWork, NameWorkSp, NameHome}
UserIds    == {1, 2}

IdleTxn == [pc |-> "idle", user_id |-> 0, name |-> <<>>, id |-> 0]

TagRec(op, ok, id, queries, note_id, user_id, tag_id, name) ==
    [op |-> op, ok |-> ok, id |-> id, queries |-> queries,
     note_id |-> note_id, user_id |-> user_id, tag_id |-> tag_id, name |-> name,
     content |-> None, note_date |-> None]

\* A tags table without UNIQUE(user_id, name) (told apart by C10)
TagExists_NoConstraint(table, user_id, name) == FALSE

\* UNIQUE(user_id, name) on tags: the rows, committed or inserted by another
\* open transaction, that an insert of (user_id, name) collides with
TagExists(table, user_id, name) ==
    \E i \in DOMAIN table : table[i].user_id = user_id /\ table[i].name = name

PendingBy(others, user_id, name) ==
    \E w \in others : txn[w].pc = "inserted" /\ txn[w].user_id = user_id
                      /\ txn[w].name = name

UnchangedByTags == UNCHANGED <<dbUp, authVars, mailVars, call, pageVars>>

\* create_tag, lines 752-761: INSERT INTO tags (user_id, name.strip(), color)
\* RETURNING id. Without a connection the call returns None. A committed row
\* with the same (user_id, name) raises IntegrityError: rollback, None. A row
\* with the same key inserted by a transaction still open makes the INSERT wait
\* for that transaction to end. A user_id that is no app_users row violates the
\* foreign key (IntegrityError too).
create_tag_insert(w, user_id, name) ==
    /\ txn[w].pc = "idle"
    /\ nextTagId <= MaxTags
    /\ ~PendingBy(Workers \ {w}, user_id, strip(name))
    /\ IF ~dbUp
       THEN /\ tagOp' = TagRec("create_tag", FALSE, None, <<>>, 0, user_id, None, name)
            /\ UNCHANGED <<txn, nextTagId>>
       ELSE IF TagExists(tags, user_id, strip(name)) \/ user_id \notin DOMAIN app_users
       THEN /\ tagOp' = TagRec("create_tag", FALSE, None, <<"INSERT", "ROLLBACK">>,
                               0, user_id, None, name)
            /\ UNCHANGED <<txn, nextTagId>>
       ELSE /\ txn' = [txn EXCEPT ![w] = [pc |-> "inserted", user_id |-> user_id,
                                          name |-> strip(name), id |-> nextTagId]]
            /\ nextTagId' = nextTagId + 1
            /\ UNCHANGED tagOp
    /\ UNCHANGED <<tags, notes, nextNoteId, note_tags>>
    /\ UnchangedByTags

\* create_tag, lines 761-763: tag_id = fetchone()[0]; conn.commit(); return
create_tag_commit(w) ==
    /\ txn[w].pc = "inserted"
    /\ tags' = [i \in DOMAIN tags \cup {txn[w].id} |->
                  IF i = txn[w].id
                  THEN [user_id |-> txn[w].user_id, name |-> txn[w].name,
                        color |-> "#1f77b4"]
                  ELSE tags[i]]
    /\ txn' = [txn EXCEPT ![w] = IdleTxn]
    /\ tagOp' = TagRec("create_tag", TRUE, Some(txn[w].id), <<"INSERT", "COMMIT">>,
                       0, txn[w].user_id, Some(txn[w].id), txn[w].name)
    /\ UNCHANGED <<nextTagId, notes, nextNoteId, note_tags>>
    /\ UnchangedByTags

\* A faulty delete_tag that forgets "AND user_id = %s" (told apart by C14)
delete_tag_AnyUser(user_id, tag_id) ==
    LET hit == dbUp /\ tag_id \in DOMAIN tags
    IN /\ tags' = IF hit THEN [i \in DOMAIN tags \ {tag_id} |-> tags[i]] ELSE tags
       /\ note_tags' = IF hit THEN {nt \in note_tags : nt[2] # tag_id} ELSE note_tags
       /\ tagOp' = TagRec("delete_tag", hit, None,
                          IF dbUp THEN <<"DELETE", "COMMIT">> ELSE <<>>,
                          0, user_id, Some(tag_id), <<>>)
       /\ UNCHANGED <<nextTagId, notes, nextNoteId, txn>>
       /\ UnchangedByTags

\* delete_tag: DELETE FROM tags WHERE id = %s AND user_id = %s, committed;
\* note_tags.tag_id is ON DELETE CASCADE; returns rowcount > 0
delete_tag(user_id, tag_id) ==
    LET hit == dbUp /\ tag_id \in DOMAIN tags /\ tags[tag_id].user_id = user_id
    IN /\ tags' = IF hit THEN [i \in DOMAIN tags \ {tag_id} |-> tags[i]] ELSE tags
       /\ note_tags' = IF hit THEN {nt \in note_tags : nt[2] # tag_id} ELSE note_tags
       /\ tagOp' = TagRec("delete_tag", hit, None,
                          IF dbUp THEN <<"DELETE", "COMMIT">> ELSE <<>>,
                          0, user_id, Some(tag_id), <<>>)
       /\ UNCHANGED <<nextTagId, notes, nextNoteId, txn>>
       /\ UnchangedByTags

NoteContents == {"first text", "second text"}
NoteDates    == {"2024-01-01", "2024-01-02"}

\* A faulty save_note_with_tag that commits the note before it inserts the
\* association (told apart by C11)
save_note_with_tag_TwoCommits(user_id, content, note_date, tag_id) ==
    LET withTag == tag_id # None /\ Val(tag_id) # 0
        noteOk  == dbUp /\ user_id \in DOMAIN app_users
        tagOk   == noteOk /\ withTag /\ Val(tag_id) \in DOMAIN tags
        ok      == noteOk /\ (withTag => tagOk)
    IN /\ nextNoteId <= MaxNotes
       /\ notes' = IF noteOk
                   THEN [i \in DOMAIN notes \cup {nextNoteId} |->
                           IF i = nextNoteId
                           THEN [user_id |-> user_id, content |-> content,
                                 note_date |-> note_date]
                           ELSE notes[i]]
                   ELSE notes
       /\ note_tags' = IF tagOk THEN note_tags \cup {<<nextNoteId, Val(tag_id)>>}
                       ELSE note_tags
       /\ nextNoteId' = IF noteOk THEN nextNoteId + 1 ELSE nextNoteId
       /\ tagOp' = TagRec("save_note_with_tag", ok,
                          IF ok THEN Some(nextNoteId) ELSE None,
                          <<"INSERT notes">>, 0, user_id, tag_id, <<>>)
       /\ UNCHANGED <<tags, nextTagId, txn>>
       /\ UnchangedByTags

\* save_note_with_tag: the note, then the association when tag_id is truthy,
\* in one transaction; a foreign key violation rolls both back
save_note_with_tag(user_id, content, note_date, tag_id) ==
    LET withTag == tag_id # None /\ Val(tag_id) # 0
        fails   == user_id \notin DOMAIN app_users
                   \/ (withTag /\ Val(tag_id) \notin DOMAIN tags)
        stored  == dbUp /\ ~fails
    IN /\ nextNoteId <= MaxNotes
       /\ notes' = IF stored
                   THEN [i \in DOMAIN notes \cup {nextNoteId} |->
                           IF i = nextNoteId
                           THEN [user_id |-> user_id, content |-> content,
                                 note_date |-> note_date]
                           ELSE notes[i]]
                   ELSE notes
       /\ note_tags' = IF stored /\ withTag
                       THEN note_tags \cup {<<nextNoteId, Val(tag_id)>>}
                       ELSE note_tags
       /\ nextNoteId' = IF stored THEN nextNoteId + 1 ELSE nextNoteId
       /\ tagOp' = TagRec("save_note_with_tag", stored,
                          IF stored THEN Some(nextNoteId) ELSE None,
                          IF ~dbUp THEN <<>>
                          ELSE IF user_id \notin DOMAIN app_users
                               THEN <<"INSERT notes", "ROLLBACK">>
                          ELSE IF ~withTag THEN <<"INSERT notes", "COMMIT">>
                          ELSE IF fails
                               THEN <<"INSERT notes", "INSERT note_tags", "ROLLBACK">>
                          ELSE <<"INSERT notes", "INSERT note_tags", "COMMIT">>,
                          0, user_id, tag_id, <<>>)
       /\ UNCHANGED <<tags, nextTagId, txn>>
       /\ UnchangedByTags

\* A faulty ownership test that forgets "AND user_id = %s" (told apart by C2)
NoteOwned_AnyUser(table, note_id, user_id) == note_id \in DOMAIN table

\* update_note_with_tag, lines 819-824: SELECT id FROM notes WHERE id = %s AND
\* user_id = %s
NoteOwned(table, note_id, user_id) ==
    note_id \in DOMAIN table /\ table[note_id].user_id = user_id

\* A faulty update that adds the new association without removing the earlier
\* ones (told apart by C12)
UpdateOwnedNote_NoDelete(note_id, content, note_date, tag_id) ==
    LET n1  == [notes EXCEPT
                  ![note_id].content =
                      IF content # None THEN Val(content) ELSE @,
                  ![note_id].note_date =
                      IF note_date # None THEN Val(note_date) ELSE @]
        ins == tag_id # None /\ Val(tag_id) > 0
    IN IF ins /\ Val(tag_id) \notin DOMAIN tags
       THEN [ok |-> FALSE, queries |-> <<"SELECT", "ROLLBACK">>,
             notes |-> notes, note_tags |-> note_tags]
       ELSE [ok |-> TRUE, queries |-> <<"SELECT", "COMMIT">>,
             notes |-> n1,
             note_tags |-> IF ins THEN note_tags \cup {<<note_id, Val(tag_id)>>}
                           ELSE IF tag_id = None THEN note_tags
                           ELSE {nt \in note_tags : nt[1] # note_id}]

\* A faulty update that treats an argument passed as None as "clear it"
\* (told apart by C13)
UpdateOwnedNote_NoneClears(note_id, content, note_date, tag_id) ==
    LET n1  == [notes EXCEPT
                  ![note_id].content =
                      IF content # None THEN Val(content) ELSE "",
                  ![note_id].note_date =
                      IF note_date # None THEN Val(note_date) ELSE @]
        del == {nt \in note_tags : nt[1] # note_id}
        ins == tag_id # None /\ Val(tag_id) > 0
    IN IF ins /\ Val(tag_id) \notin DOMAIN tags
       THEN [ok |-> FALSE, queries |-> <<"SELECT", "ROLLBACK">>,
             notes |-> notes, note_tags |-> note_tags]
       ELSE [ok |-> TRUE, queries |-> <<"SELECT", "COMMIT">>,
             notes |-> n1,
             note_tags |-> IF ins THEN del \cup {<<note_id, Val(tag_id)>>} ELSE del]

\* update_note_with_tag, lines 826-862: the statements run once the note is
\* known to be the user's, and the tables they leave when committed.
\* content, note_date and tag_id are Optional.
\* Result: [ok, queries, notes, note_tags]
UpdateOwnedNote(note_id, content, note_date, tag_id) ==
    LET upd  == content # None \/ note_date # None
        n1   == [notes EXCEPT
                   ![note_id].content =
                       IF content # None THEN Val(content) ELSE @,
                   ![note_id].note_date =
                       IF note_date # None THEN Val(note_date) ELSE @]
        q1   == <<"SELECT">> \o (IF upd THEN <<"UPDATE notes">> ELSE <<>>)
        del  == {nt \in note_tags : nt[1] # note_id}
        ins  == tag_id # None /\ Val(tag_id) > 0
        q2   == q1 \o (IF tag_id # None THEN <<"DELETE note_tags">> ELSE <<>>)
                   \o (IF ins THEN <<"INSERT note_tags">> ELSE <<>>)
    IN IF ins /\ Val(tag_id) \notin DOMAIN tags
       THEN [ok |-> FALSE, queries |-> q2 \o <<"ROLLBACK">>,
             notes |-> notes, note_tags |-> note_tags]
       ELSE [ok |-> TRUE, queries |-> q2 \o <<"COMMIT">>,
             notes |-> n1,
             note_tags |-> IF tag_id = None THEN note_tags
                           ELSE IF ins THEN del \cup {<<note_id, Val(tag_id)>>}
                           ELSE del]

\* update_note_with_tag
update_note_with_tag(note_id, user_id, content, note_date, tag_id) ==
    LET r == IF ~dbUp
             THEN [ok |-> FALSE, queries |-> <<>>,
                   notes |-> notes, note_tags |-> note_tags]
             ELSE IF ~NoteOwned(notes, note_id, user_id)
             THEN [ok |-> FALSE, queries |-> <<"SELECT">>,
                   notes |-> notes, note_tags |-> note_tags]
             ELSE UpdateOwnedNote(note_id, content, note_date, tag_id)
    IN /\ notes' = r.notes
       /\ note_tags' = r.note_tags
       /\ tagOp' = [TagRec("update_note_with_tag", r.ok, None, r.queries,
                           note_id, user_id, tag_id, <<>>)
                       EXCEPT !.content = content, !.note_date = note_date]
       /\ UNCHANGED <<tags, nextTagId, nextNoteId, txn>>
       /\ UnchangedByTags

(***************************************************************************)
(* register_user called by several sessions at once: simple_auth.py lines  *)
(* 83-129, one step per statement sent to the database                     *)
(***************************************************************************)
IdleReg ==
    [pc |-> "idle", username |-> "", email |-> "", password |-> <<>>,
     id |-> 0, salt |-> 0, result |-> None, at |-> ""]

\* A table without UNIQUE on username and email (told apart by C15)
UserConflict_NoConstraint(table, username, email) == FALSE

\* username VARCHAR(50) UNIQUE NOT NULL, email VARCHAR(255) UNIQUE NOT NULL:
\* the committed rows an insert of (username, email) collides with
UserConflict(table, username, email) ==
    \E i \in DOMAIN table : table[i].username = username \/ table[i].email = email

\* The same collision with a row another open transaction has inserted; the
\* insert waits for that transaction to end
UserPending(others, username, email) ==
    \E w \in others : /\ reg[w].pc = "inserted"
                      /\ (reg[w].username = username \/ reg[w].email = email)

UnchangedByRegister ==
    UNCHANGED <<dbUp, now, session, authOp, mailVars, tagVars, call, pageVars>>

\* register_user returns None from the statement it is at
RegDone(w, r) ==
    [reg EXCEPT ![w] = [r EXCEPT !.pc = "done", !.result = None, !.at = r.pc]]

\* lines 87-101: the required fields, validate_password, get_user_by_username
register_user_begin(w, username, email, password, salt) ==
    LET r == [IdleReg EXCEPT !.username = username, !.email = email,
                             !.password = password, !.salt = salt]
    IN /\ reg[w].pc \in {"idle", "done"}
       /\ reg' = IF username = "" \/ email = "" \/ password = <<>>
                 THEN RegDone(w, r)
                 ELSE IF ~validate_password(password) THEN RegDone(w, r)
                 ELSE IF get_user_by_username(app_users, username) # None
                      THEN RegDone(w, r)
                 ELSE [reg EXCEPT ![w] = [r EXCEPT !.pc = "email"]]
       /\ UNCHANGED <<app_users, nextUserId>>
       /\ UnchangedByRegister

\* lines 103-106: get_user_by_email
register_user_check_email(w) ==
    /\ reg[w].pc = "email"
    /\ reg' = IF get_user_by_email(app_users, reg[w].email) # None
              THEN RegDone(w, reg[w])
              ELSE [reg EXCEPT ![w].pc = "insert"]
    /\ UNCHANGED <<app_users, nextUserId>>
    /\ UnchangedByRegister

\* lines 108-117, create_user_with_auth: INSERT ... RETURNING id
register_user_insert(w) ==
    /\ reg[w].pc = "insert"
    /\ ~UserPending(Workers \ {w}, reg[w].username, reg[w].email)
    /\ IF ~dbUp \/ UserConflict(app_users, reg[w].username, reg[w].email)
       THEN /\ reg' = RegDone(w, reg[w])
            /\ UNCHANGED nextUserId
       ELSE /\ nextUserId <= MaxUsers + 1
            /\ reg' = [reg EXCEPT ![w].pc = "inserted", ![w].id = nextUserId]
            /\ nextUserId' = nextUserId + 1
    /\ UNCHANGED app_users
    /\ UnchangedByRegister

\* create_user_with_auth: conn.commit(); then lines 119-122: get_user_by_id
register_user_commit(w) ==
    LET r == reg[w]
        table == [i \in DOMAIN app_users \cup {r.id} |->
                    IF i = r.id
                    THEN [username |-> r.username, email |-> r.email,
                          password_hash |-> hash_password(r.password, r.salt),
                          display_name |-> r.username,
                          is_active |-> TRUE, last_login |-> None]
                    ELSE app_users[i]]
    IN /\ r.pc = "inserted"
       /\ app_users' = table
       /\ reg' = [reg EXCEPT ![w].pc = "done",
                             ![w].result = get_user_by_id(table, r.id)]
       /\ UNCHANGED nextUserId
       /\ UnchangedByRegister

(***************************************************************************)
(* DatabaseManager methods on app_users and sent_emails called directly    *)
(***************************************************************************)
DbRec(op, ok, id) == TagRec(op, ok, id, <<>>, 0, 0, None, <<>>)

UnchangedByDb ==
    UNCHANGED <<dbUp, now, session, authOp, reg, smtpEnv, flow, mailOp,
                tags, nextTagId, notes, nextNoteId, note_tags, txn, call,
                pageVars>>

\* get_user_by_username, get_user_by_email, get_user_by_id
db_get_user(by, username, user_id) ==
    LET r == IF by = "username" THEN get_user_by_username(app_users, username)
             ELSE IF by = "email" THEN get_user_by_email(app_users, EmailOf(username))
             ELSE get_user_by_id(app_users, user_id)
    IN /\ tagOp' = DbRec("get_user_by_" \o by, r # None,
                         IF r = None THEN None ELSE Some(Val(r).id))
       /\ UNCHANGED <<app_users, nextUserId, sent_emails, nextEmailId>>
       /\ UnchangedByDb

db_create_user_with_auth(username, password, salt) ==
    LET r == create_user_with_auth(app_users, username, EmailOf(username),
                                   hash_password(password, salt), username)
    IN /\ nextUserId <= MaxUsers + 1
       /\ app_users' = r.table
       /\ nextUserId' = IF r.id # None THEN nextUserId + 1 ELSE nextUserId
       /\ tagOp' = DbRec("create_user_with_auth", r.id # None, r.id)
       /\ UNCHANGED <<sent_emails, nextEmailId>>
       /\ UnchangedByDb

db_update_user_last_login(user_id) ==
    /\ app_users' = update_user_last_login(app_users, user_id)
    /\ tagOp' = DbRec("update_user_last_login",
                      update_user_last_login_result(app_users, user_id), None)
    /\ UNCHANGED <<nextUserId, sent_emails, nextEmailId>>
    /\ UnchangedByDb

db_update_user_password(user_id, password, salt) ==
    LET r == update_user_password(app_users, user_id, hash_password(password, salt))
    IN /\ app_users' = r.table
       /\ tagOp' = DbRec("update_user_password", r.ok, None)
       /\ UNCHANGED <<nextUserId, sent_emails, nextEmailId>>
       /\ UnchangedByDb

db_save_sent_email(user_id, to_email, subject, body) ==
    LET r == save_sent_email(sent_emails, user_id, to_email, subject, body, "queued")
    IN /\ nextEmailId <= MaxEmails
       /\ sent_emails' = r.table
       /\ nextEmailId' = IF r.id # None THEN nextEmailId + 1 ELSE nextEmailId
       /\ tagOp' = DbRec("save_sent_email", r.id # None, r.id)
       /\ UNCHANGED <<app_users, nextUserId>>
       /\ UnchangedByDb

db_update_sent_email_status(email_id, status, error_message) ==
    LET r == update_sent_email_status(sent_emails, email_id, status, error_message)
    IN /\ sent_emails' = r.table
       /\ tagOp' = DbRec("update_sent_email_status", r.ok, None)
       /\ UNCHANGED <<app_users, nextUserId, nextEmailId>>
       /\ UnchangedByDb

(***************************************************************************)
(* DatabaseManager.__init__: database.py lines 38-84                       *)
(***************************************************************************)
NoCall == [fn |-> "none"]

DbKeys == {"DB_HOST", "DB_NAME", "DB_USER", "DB_PASSWORD", "DB_PORT"}
Required == {"host", "database", "user", "password"}

\* A configuration source: the keys it holds and their values ("" is an empty
\* value); Absent is a source that is not there at all
AllSet == [k \in DbKeys |-> IF k = "DB_PORT" THEN "5432" ELSE "v"]
Without(src, k) == [x \in DOMAIN src \ {k} |-> src[x]]
Emptied(src, k) == [src EXCEPT ![k] = ""]
Absent == [present |-> FALSE, section |-> <<>>]
Section(keys) == [present |-> TRUE, section |-> keys]
Sources ==
    {Absent, Section(AllSet), Section(Without(AllSet, "DB_HOST")),
     Section(Emptied(AllSet, "DB_PASSWORD")), Section(Without(AllSet, "DB_PORT")),
     Section(Emptied(AllSet, "DB_PORT"))}

\* The environment: no DB_ variable set, or what a section can hold
EnvSources == {Section(<<>>)} \cup (Sources \ {Absent})

\* dict.get(key, default) and os.getenv(key, default); "None" is Python's None
DictGet(d, k, default) == IF k \in DOMAIN d THEN d[k] ELSE default
Falsy(v) == v \in {"", "None"}

\* The connection_params built from a dict-like source
ParamsFrom(d) ==
    [host |-> DictGet(d, "DB_HOST", "None"),
     database |-> DictGet(d, "DB_NAME", "None"),
     user |-> DictGet(d, "DB_USER", "None"),
     password |-> DictGet(d, "DB_PASSWORD", "None"),
     port |-> DictGet(d, "DB_PORT", "5432")]

\* all(self.connection_params.values())
AllValues(params) == \A k \in DOMAIN params : ~Falsy(params[k])

\* DatabaseManager.__init__. file is the [database] section of
\* .streamlit/secrets.toml, env the environment, stsecrets the [database]
\* section of st.secrets, whose four required keys are read as attributes.
\* Result: [raised |-> "" or the exception's type, params |-> Optional
\*          connection_params, source |-> where they were taken from]
DatabaseManager_init(file, env, stsecrets) ==
    LET p1 == IF file.present
              THEN [params |-> Some(ParamsFrom(file.section)), source |-> "secrets.toml"]
              ELSE [params |-> None, source |-> ""]
        p2 == IF p1.params = None \/ ~AllValues(Val(p1.params))
              THEN [params |-> Some(ParamsFrom(env.section)), source |-> "environ"]
              ELSE p1
        useSt == ~AllValues(Val(p2.params)) /\ stsecrets.present
    IN IF useSt /\ {"DB_HOST", "DB_NAME", "DB_USER", "DB_PASSWORD"}
                     \ DOMAIN stsecrets.section # {}
       THEN [raised |-> "AttributeError", params |-> None, source |-> "st.secrets"]
       ELSE LET p3 == IF useSt
                      THEN [params |-> Some(ParamsFrom(stsecrets.section)),
                            source |-> "st.secrets"]
                      ELSE p2
            IN IF \E k \in Required : Falsy(Val(p3.params)[k])
               THEN [raised |-> "ValueError", params |-> p3.params,
                     source |-> p3.source]
               ELSE [raised |-> "", params |-> p3.params, source |-> p3.source]

UnchangedByCall == UNCHANGED <<dbUp, authVars, mailVars, tagVars, pageVars>>

\* db_manager = DatabaseManager(), with the sources the process was started in
new_DatabaseManager ==
    /\ call.fn = "DatabaseManager" /\ ~call.done
    /\ call' = [call EXCEPT !.done = TRUE,
                            !.result = DatabaseManager_init(call.file, call.env,
                                                            call.stsecrets)]
    /\ UnchangedByCall

(***************************************************************************)
(* Utility functions: calculations/utils.py. A text is a sequence of       *)
(* characters, a character is a string of length one ("\\0" stands for the *)
(* NUL character).                                                         *)
(***************************************************************************)
\* text[:stop], Python's slice from the start: a negative stop counts from
\* the end, and both ends are clamped to the text
SliceTo(text, stop) ==
    LET n == Len(text)
        e == IF stop < 0
             THEN (IF stop + n < 0 THEN 0 ELSE stop + n)
             ELSE (IF stop > n THEN n ELSE stop)
    IN SubSeq(text, 1, e)

Ellipsis == <<".", ".", ".">>

\* truncate_text(text, max_length)
truncate_text(text, max_length) ==
    IF Len(text) <= max_length
    THEN text
    ELSE SliceTo(text, max_length - 3) \o Ellipsis

\* The characters with a code below 32 among those the model uses
Control == {"\\0", "\t", "\n", "\r", "\f"}

\* ord(char) >= 32 or char in '\n\t'
Kept(char) == char \notin Control \/ char \in {"\n", "\t"}

\* sanitize_input with the two steps the other way round
sanitize_input_StripFirst(text) ==
    IF text = None \/ Val(text) = <<>>
    THEN <<>>
    ELSE SelectSeq(strip(Val(text)), Kept)

\* sanitize_input(text); text is Optional, None or Some(a text)
sanitize_input(text) ==
    IF text = None \/ Val(text) = <<>>
    THEN <<>>
    ELSE strip(SelectSeq(Val(text), Kept))

\* 'available' and the patterns below are matched ignoring case
UpperCase ==
    <<"A", "B", "C", "D", "E", "F", "G", "H", "I", "J", "K", "L", "M",
      "N", "O", "P", "Q", "R", "S", "T", "U", "V", "W", "X", "Y", "Z">>
LowerCase ==
    <<"a", "b", "c", "d", "e", "f", "g", "h", "i", "j", "k", "l", "m",
      "n", "o", "p", "q", "r", "s", "t", "u", "v", "w", "x", "y", "z">>

\* re.IGNORECASE: characters are compared by their lower-case form
Lower(c) ==
    IF \E i \in DOMAIN UpperCase : UpperCase[i] = c
    THEN LowerCase[CHOOSE i \in DOMAIN UpperCase : UpperCase[i] = c]
    ELSE c

\* \w
IsWord(c) ==
    \/ Lower(c) \in {LowerCase[i] : i \in DOMAIN LowerCase}
    \/ c \in {"0", "1", "2", "3", "4", "5", "6", "7", "8", "9", "_"}

\* ["']
IsQuote(c) == c \in {"\"", "'"}

\* A literal of the pattern (in lower case) matches the text from position i
LiteralAt(text, i, lit) ==
    /\ i >= 1 /\ i + Len(lit) - 1 <= Len(text)
    /\ \A k \in 1..Len(lit) : Lower(text[i + k - 1]) = lit[k]

\* r'<script.*?>.*?</script>'
\* (. matches every character but the newline)
MatchScriptTag(text) ==
    LET open  == <<"<", "s", "c", "r", "i", "p", "t">>
        close == <<"<", "/", "s", "c", "r", "i", "p", "t", ">">>
        Dot(c) == c # "\n"
    IN \E i \in 1..Len(text) :
          /\ LiteralAt(text, i, open)
          /\ \E j \in i + Len(open)..Len(text) :
                /\ text[j] = ">"
                /\ \A m \in i + Len(open)..j - 1 : Dot(text[m])
                /\ \E k \in j + 1..Len(text) :
                      /\ LiteralAt(text, k, close)
                      /\ \A m \in j + 1..k - 1 : Dot(text[m])

\* r'javascript:'
MatchJavascriptUrl(text) ==
    \E i \in 1..Len(text) :
       LiteralAt(text, i, <<"j", "a", "v", "a", "s", "c", "r", "i", "p", "t", ":">>)

\* on\w+\s*= with "on" at position i: the position of the "=", if any
HandlerEquals(text, i) ==
    {e \in i + 3..Len(text) :
        /\ LiteralAt(text, i, <<"o", "n">>)
        /\ text[e] = "="
        /\ \E w \in i + 2..e - 1 :
              /\ \A m \in i + 2..w : IsWord(text[m])
              /\ \A m \in w + 1..e - 1 : IsSpace(text[m])}

\* r'<[^>]*\son\w+\s*='
MatchHandlerInTag(text) ==
    \E i \in 1..Len(text) :
       /\ text[i] = "<"
       /\ \E j \in i + 1..Len(text) :
             /\ IsSpace(text[j])
             /\ \A m \in i + 1..j - 1 : text[m] # ">"
             /\ HandlerEquals(text, j + 1) # {}

\* \b before position i
WordBoundary(text, i) ==
    LET before == i > 1 /\ IsWord(text[i - 1])
        after  == i <= Len(text) /\ IsWord(text[i])
    IN before # after

\* r'\bon\w+\s*=\s*["\'][^"\']*["\']'
MatchQuotedHandler(text) ==
    \E i \in 1..Len(text) :
       /\ LiteralAt(text, i, <<"o", "n">>)
       /\ WordBoundary(text, i)
       /\ \E e \in HandlerEquals(text, i) :
             \E q \in e + 1..Len(text) :
                /\ IsQuote(text[q])
                /\ \A m \in e + 1..q - 1 : IsSpace(text[m])
                /\ \E q2 \in q + 1..Len(text) :
                      /\ IsQuote(text[q2])
                      /\ \A m \in q + 1..q2 - 1 : ~IsQuote(text[m])

\* any(re.search(pattern, content, re.IGNORECASE) for pattern in dangerous_patterns)
Harmful(text) ==
    \/ MatchScriptTag(text)
    \/ MatchJavascriptUrl(text)
    \/ MatchHandlerInTag(text)
    \/ MatchQuotedHandler(text)

note_min_length == 5
note_max_length == 5000

Verdict(is_valid, error_message) == [valid |-> is_valid, message |-> error_message]

\* validate_note_content with the harmful patterns searched before the
\* maximum length is checked
validate_note_content_HarmfulFirst(content) ==
    IF content = None \/ Val(content) = <<>> \/ strip(Val(content)) = <<>>
    THEN Verdict(FALSE, "Note content cannot be empty.")
    ELSE IF Len(strip(Val(content))) < note_min_length
    THEN Verdict(FALSE, "Note must be at least 5 characters long.")
    ELSE IF Harmful(Val(content))
    THEN Verdict(FALSE, "Note contains potentially harmful content.")
    ELSE IF Len(Val(content)) > note_max_length
    THEN Verdict(FALSE, "Note cannot exceed 5000 characters.")
    ELSE Verdict(TRUE, "")

\* validate_note_content(content); content is Optional, None or Some(a text)
validate_note_content(content) ==
    IF content = None \/ Val(content) = <<>> \/ strip(Val(content)) = <<>>
    THEN Verdict(FALSE, "Note content cannot be empty.")
    ELSE IF Len(strip(Val(content))) < note_min_length
    THEN Verdict(FALSE, "Note must be at least 5 characters long.")
    ELSE IF Len(Val(content)) > note_max_length
    THEN Verdict(FALSE, "Note cannot exceed 5000 characters.")
    ELSE IF Harmful(Val(content))
    THEN Verdict(FALSE, "Note contains potentially harmful content.")
    ELSE Verdict(TRUE, "")

\* One call of a utility function: the arguments are in call, the step
\* stores what the function returns
apply_truncate_text ==
    /\ call.fn = "truncate_text" /\ ~call.done
    /\ call' = [call EXCEPT !.done = TRUE,
                            !.result = truncate_text(call.text, call.max_length)]
    /\ UnchangedByCall

apply_sanitize_input ==
    /\ call.fn = "sanitize_input" /\ ~call.done
    /\ call' = [call EXCEPT !.done = TRUE, !.result = sanitize_input(call.text)]
    /\ UnchangedByCall

apply_validate_note_content ==
    /\ call.fn = "validate_note_content" /\ ~call.done
    /\ call' = [call EXCEPT !.done = TRUE,
                            !.result = validate_note_content(call.text)]
    /\ UnchangedByCall

(***************************************************************************)
(* The weekly draft: xai_client.py draft_weekly_email lines 228-254, and   *)
(* the Summary page's reading of it, 0_Summary.py lines 107-113            *)
(***************************************************************************)
\* str.startswith
StartsWith(s, prefix) ==
    Len(prefix) <= Len(s) /\ SubSeq(s, 1, Len(prefix)) = prefix

\* "\n".join(lines)
RECURSIVE JoinLines(_)
JoinLines(lines) ==
    IF lines = <<>> THEN <<>>
    ELSE IF Len(lines) = 1 THEN lines[1]
    ELSE lines[1] \o <<"\n">> \o JoinLines(Tail(lines))

\* s.replace(old, ""): every occurrence of old, found from the left, is removed
RECURSIVE RemoveAll(_, _)
RemoveAll(s, old) ==
    IF s = <<>> THEN <<>>
    ELSE IF StartsWith(s, old) THEN RemoveAll(SubSeq(s, Len(old) + 1, Len(s)), old)
    ELSE <<Head(s)>> \o RemoveAll(Tail(s), old)

\* s.partition("\n"): the text before the first newline and the text after it
Partition(s) ==
    IF Contains(s, "\n")
    THEN LET at == CHOOSE i \in 1..Len(s) :
                      s[i] = "\n" /\ \A j \in 1..i - 1 : s[j] # "\n"
         IN [first |-> SubSeq(s, 1, at - 1), rest |-> SubSeq(s, at + 1, Len(s))]
    ELSE [first |-> s, rest |-> <<>>]

\* The text draft_weekly_email builds from the parsed reply; subject and
\* recipient_name are Optional, bullets and next_week are lists of texts
draft_weekly_email(subject, recipient_name, bullets, next_week, user_display_name) ==
    LET Item(b) == <<"-", " ">> \o b
        head  == IF subject # None /\ Val(subject) # <<>>
                 THEN << <<"S", "u", "b", "j", "e", "c", "t", ":", " ">> \o Val(subject), <<>> >>
                 ELSE <<>>
        greet == IF recipient_name # None /\ Val(recipient_name) # <<>>
                 THEN << <<"H", "i", " ">> \o Val(recipient_name) \o <<",">>, <<>> >>
                 ELSE <<>>
        items == [i \in DOMAIN bullets |-> Item(bullets[i])]
        next  == IF next_week # <<>>
                 THEN << <<>>, <<"N", "e", "x", "t", " ", "w", "e", "e", "k", ":">> >>
                      \o [i \in DOMAIN next_week |-> Item(next_week[i])]
                 ELSE <<>>
        close == IF user_display_name # <<>>
                 THEN << <<>>, <<"R", "e", "g", "a", "r", "d", "s", ",">>,
                         user_display_name >>
                 ELSE <<>>
    IN strip(JoinLines(head \o greet \o items \o next \o close))

\* The Summary page's subject and body_text for the draft in the text area
parse_draft(draft) ==
    IF StartsWith(draft, <<"S", "u", "b", "j", "e", "c", "t", ":">>)
    THEN LET p == Partition(draft)
             s == strip(RemoveAll(p.first, <<"S", "u", "b", "j", "e", "c", "t", ":">>))
         IN [subject   |-> IF s # <<>> THEN s
                           ELSE <<"W", "e", "e", "k", "l", "y", " ",
                                  "U", "p", "d", "a", "t", "e">>,
             body_text |-> IF \A i \in 1..Len(p.rest) : p.rest[i] = "\n"
                           THEN <<>>
                           ELSE SubSeq(p.rest,
                                       CHOOSE i \in 1..Len(p.rest) :
                                          /\ p.rest[i] # "\n"
                                          /\ \A j \in 1..i - 1 : p.rest[j] = "\n",
                                       Len(p.rest))]
    ELSE [subject   |-> <<"W", "e", "e", "k", "l", "y", " ",
                         "U", "p", "d", "a", "t", "e">>,
          body_text |-> draft]

\* Draft Mail and the script run that shows the draft: the reply is turned
\* into the draft, and the unedited draft is read back
apply_draft_weekly_email ==
    /\ call.fn = "draft_weekly_email" /\ ~call.done
    /\ LET draft == draft_weekly_email(call.subject, call.recipient_name,
                                       call.bullets, call.next_week,
                                       call.user_display_name)
       IN call' = [call EXCEPT !.done = TRUE,
                               !.result = [draft |-> draft] @@ parse_draft(draft)]
    /\ UnchangedByCall

(***************************************************************************)
(* What every specification starts with outside the authentication, mail   *)
(* and tag tables                                                          *)
(***************************************************************************)
\* No Summary page run yet
IdleSummary ==
    [shown |-> FALSE, user_id |-> 0, draft |-> <<>>, recipient |-> <<>>,
     drafted_by |-> 0, recipient_by |-> 0, edited |-> FALSE]

\* No update_note_with_tag call in progress on a connection
IdleUpd ==
    [pc |-> "idle", note_id |-> 0, user_id |-> 0, content |-> None,
     note_date |-> None, tag_id |-> None, seen |-> {}, deleted |-> {},
     inserted |-> {}]

\* The manager columns are NULL for every user, no page has run
InitPage ==
    /\ manager_info = <<>>
    /\ summaryOp = IdleSummary
    /\ updTxn = [w \in Workers |-> IdleUpd]

(***************************************************************************)
(* The Settings page (3_Settings.py), the manager columns of app_users     *)
(* (database.py lines 630-675) and the Summary page (0_Summary.py)         *)
(***************************************************************************)
\* The characters of the strings the model writes as a whole
TextOf(s) ==
    CASE s = "admin@example.com" -> <<"a", "d", "m", "i", "n", "@", "e", "x", "a", "m", "p", "l", "e", ".", "c", "o", "m">>
      [] s = "bob@example.com"   -> <<"b", "o", "b", "@", "e", "x", "a", "m", "p", "l", "e", ".", "c", "o", "m">>
      [] s = "Administrator"     -> <<"A", "d", "m", "i", "n", "i", "s", "t", "r", "a", "t", "o", "r">>
      [] s = "bob"               -> <<"b", "o", "b">>
      [] s = "admin"             -> <<"a", "d", "m", "i", "n">>
      [] OTHER                   -> <<>>

\* 'session_timeout': 3600
session_timeout == 3600

\* Time passes: half a session_timeout at a time, MaxTicks times
MaxTicks == 4

Tick ==
    /\ now + session_timeout \div 2 <= 1 + MaxTicks * (session_timeout \div 2)
    /\ now' = now + session_timeout \div 2
    /\ UNCHANGED <<dbUp, app_users, nextUserId, session, authOp, reg,
                   mailVars, tagVars, call, pageVars>>

\* get_manager_info: SELECT manager_name, manager_email FROM app_users
\* WHERE id = %s AND is_active = TRUE. An Optional row of Optional values.
get_manager_info(user_id) ==
    IF ~dbUp \/ user_id \notin DOMAIN app_users THEN None
    ELSE IF ~app_users[user_id].is_active THEN None
    ELSE Some(IF user_id \in DOMAIN manager_info THEN manager_info[user_id]
              ELSE [manager_name |-> None, manager_email |-> None])

\* update_manager_info: the columns afterwards and whether a row was updated
update_manager_info(user_id, manager_name, manager_email) ==
    IF dbUp /\ user_id \in DOMAIN app_users /\ app_users[user_id].is_active
    THEN [ok |-> TRUE,
          table |-> [u \in DOMAIN manager_info \cup {user_id} |->
                       IF u = user_id
                       THEN [manager_name |-> Some(manager_name),
                             manager_email |-> Some(manager_email)]
                       ELSE manager_info[u]]]
    ELSE [ok |-> FALSE, table |-> manager_info]

\* is_valid_email: "@" in email and "." in email.split("@")[-1], on the
\* stripped address
is_valid_email(email) ==
    LET e == strip(email)
    IN \E i \in 1..Len(e) :
          /\ e[i] = "@"
          /\ \A j \in i + 1..Len(e) : e[j] # "@"
          /\ \E j \in i + 1..Len(e) : e[j] = "."

\* The Settings page, "Save" submitted in the boss form by the user logged in
settings_save(boss_name, boss_email) ==
    LET s1  == initialize_auth_session_state(session)
        uid == Val(s1["user_id"])
        r   == IF strip(boss_name) = <<>> \/ ~is_valid_email(boss_email)
               THEN [ok |-> FALSE, table |-> manager_info]
               ELSE update_manager_info(uid, strip(boss_name), strip(boss_email))
    IN /\ s1["authenticated"]
       /\ session' = s1
       /\ manager_info' = r.table
       /\ UNCHANGED <<dbUp, now, app_users, nextUserId, authOp, reg, mailVars,
                      tagVars, call, summaryOp, updTxn>>

\* "x or y" on two Optional texts: the first that is neither None nor empty
OrElse(x, y) == IF x # None /\ Val(x) # <<>> THEN x ELSE y

\* What Grok drafts for a user from the user's notes, as draft_weekly_email
\* lays it out
DraftFor(user, mgr) ==
    LET name == OrElse(user.display_name, user.username)
        to   == IF mgr = None THEN None ELSE Val(mgr).manager_name
        recipient_name ==
            IF to = None \/ strip(Val(to)) = <<>> THEN None ELSE Some(strip(Val(to)))
    IN draft_weekly_email(Some(<<"W", "e", "e", "k">>), recipient_name,
                          << <<"n", "o", "t", "e", "s">> >>, <<>>,
                          IF name = None THEN <<>> ELSE Val(name))

\* One script run of the Summary page for the user logged in. clicked: "Draft
\* Mail" was clicked and Grok answered; draft_edit, recipient_edit: what the
\* user typed into the draft area and the To field, None when untouched
summary_page(clicked, draft_edit, recipient_edit) ==
    LET s1   == initialize_auth_session_state(session)
        u    == Val(get_current_user(s1))
        user == [id |-> Val(u.id),
                 username |-> Some(TextOf(Val(u.username))),
                 email |-> Some(TextOf(Val(u.email))),
                 display_name |-> Some(TextOf(Val(u.display_name)))]
        mgr  == get_manager_info(user.id)
        s2   == SDefault(s1, "email_draft_text", <<>>)
        fresh == "email_recipient" \notin DOMAIN s2
        mail == OrElse(IF mgr = None THEN None ELSE Val(mgr).manager_email,
                       OrElse(user.email, Some(<<>>)))
        s3   == IF fresh THEN SSet(s2, "email_recipient", strip(Val(mail))) ELSE s2
        has_notes == dbUp /\ \E i \in DOMAIN notes : notes[i].user_id = user.id
        s4   == IF clicked THEN SSet(s3, "email_draft_text", DraftFor(user, mgr))
                ELSE s3
        shown == s4["email_draft_text"] # <<>>
        draft == IF draft_edit # None THEN Val(draft_edit) ELSE s4["email_draft_text"]
        recipient_input ==
            IF recipient_edit # None THEN Val(recipient_edit) ELSE s4["email_recipient"]
    IN /\ s1["authenticated"]
       /\ clicked => has_notes
       /\ (draft_edit # None \/ recipient_edit # None) => shown
       /\ session' = IF shown
                     THEN SSet(SSet(s4, "email_draft_text", draft),
                               "email_recipient", recipient_input)
                     ELSE s4
       /\ summaryOp' =
             [shown |-> shown, user_id |-> user.id,
              draft |-> IF shown THEN draft ELSE <<>>,
              recipient |-> IF shown THEN recipient_input ELSE <<>>,
              drafted_by |-> IF clicked \/ draft_edit # None THEN user.id
                             ELSE summaryOp.drafted_by,
              recipient_by |-> IF fresh \/ recipient_edit # None THEN user.id
                               ELSE summaryOp.recipient_by,
              edited |-> IF recipient_edit # None THEN TRUE
                         ELSE IF fresh THEN FALSE ELSE summaryOp.edited]
       /\ UNCHANGED <<dbUp, now, app_users, nextUserId, authOp, reg, mailVars,
                      tagVars, call, manager_info, updTxn>>

(***************************************************************************)
(* update_note_with_tag called on several connections at once:             *)
(* database.py lines 812-870, one step per statement. Each statement sees  *)
(* the rows committed when it starts (READ COMMITTED, the default of the   *)
(* connections get_connection opens) and the rows of its own transaction.  *)
(***************************************************************************)
UnchangedByUpdate ==
    UNCHANGED <<dbUp, authVars, mailVars, call, manager_info, summaryOp,
                tags, nextTagId, nextNoteId, txn>>

UpdRec(t, ok, queries) ==
    [TagRec("update_note_with_tag", ok, None, queries, t.note_id, t.user_id,
            t.tag_id, <<>>)
        EXCEPT !.content = t.content, !.note_date = t.note_date]

\* The connection holds the row lock UPDATE notes takes until it commits
HoldsNote(w, note_id) ==
    /\ updTxn[w].pc \in {"updated", "deleting", "deleted", "tagged"}
    /\ updTxn[w].note_id = note_id
    /\ (updTxn[w].content # None \/ updTxn[w].note_date # None)

\* lines 814-824: get_connection, SELECT id FROM notes WHERE id AND user_id
update_begin(w, note_id, user_id, content, note_date, tag_id) ==
    LET t == [IdleUpd EXCEPT !.pc = "selected", !.note_id = note_id,
                             !.user_id = user_id, !.content = content,
                             !.note_date = note_date, !.tag_id = tag_id]
    IN /\ updTxn[w].pc = "idle"
       /\ IF ~dbUp
          THEN tagOp' = UpdRec(t, FALSE, <<>>) /\ UNCHANGED updTxn
          ELSE IF ~NoteOwned(notes, note_id, user_id)
          THEN tagOp' = UpdRec(t, FALSE, <<"SELECT">>) /\ UNCHANGED updTxn
          ELSE updTxn' = [updTxn EXCEPT ![w] = t] /\ UNCHANGED tagOp
       /\ UNCHANGED <<notes, note_tags>>
       /\ UnchangedByUpdate

\* lines 826-843: UPDATE notes SET ... when content or note_date is given. The
\* statement waits while another transaction holds the lock of the row.
update_notes_row(w) ==
    LET t == updTxn[w]
    IN /\ t.pc = "selected"
       /\ (t.content # None \/ t.note_date # None)
             => \A v \in Workers \ {w} : ~HoldsNote(v, t.note_id)
       /\ updTxn' = [updTxn EXCEPT ![w].pc = "updated"]
       /\ UNCHANGED <<notes, note_tags, tagOp>>
       /\ UnchangedByUpdate

\* lines 846-850: DELETE FROM note_tags WHERE note_id = %s starts: the rows it
\* is going to delete are the committed rows of the note at that moment.
\* Without a tag_id the tag statements are skipped.
update_delete_scan(w) ==
    LET t == updTxn[w]
    IN /\ t.pc = "updated"
       /\ updTxn' = IF t.tag_id = None
                    THEN [updTxn EXCEPT ![w].pc = "tagged"]
                    ELSE [updTxn EXCEPT ![w].pc = "deleting",
                            ![w].seen = {nt \in note_tags : nt[1] = t.note_id}]
       /\ UNCHANGED <<notes, note_tags, tagOp>>
       /\ UnchangedByUpdate

\* lines 846-850: the DELETE ends. A row another open transaction has deleted
\* makes it wait for that transaction; a row gone by then is skipped, and rows
\* committed after the statement started are not seen.
update_delete_rows(w) ==
    LET t == updTxn[w]
    IN /\ t.pc = "deleting"
       /\ \A v \in Workers \ {w} : updTxn[v].deleted \cap t.seen = {}
       /\ updTxn' = [updTxn EXCEPT
                       ![w].deleted = t.seen \cap note_tags,
                       ![w].pc = IF Val(t.tag_id) > 0 THEN "deleted" ELSE "tagged"]
       /\ UNCHANGED <<notes, note_tags, tagOp>>
       /\ UnchangedByUpdate

\* lines 853-858: INSERT INTO note_tags (note_id, tag_id) ON CONFLICT (note_id,
\* tag_id) DO NOTHING. A tag_id that is no row of tags violates the foreign
\* key: psycopg2.Error, rollback, False (lines 863-866). The same pair inserted
\* or deleted by another open transaction makes the statement wait.
update_insert(w) ==
    LET t   == updTxn[w]
        row == <<t.note_id, Val(t.tag_id)>>
    IN /\ t.pc = "deleted"
       /\ \A v \in Workers \ {w} :
             row \notin updTxn[v].inserted \cup updTxn[v].deleted
       /\ IF Val(t.tag_id) \notin DOMAIN tags
          THEN /\ updTxn' = [updTxn EXCEPT ![w] = IdleUpd]
               /\ tagOp' = UpdRec(t, FALSE, <<"SELECT", "DELETE note_tags",
                                              "INSERT note_tags", "ROLLBACK">>)
          ELSE /\ updTxn' = [updTxn EXCEPT
                               ![w].pc = "tagged",
                               ![w].inserted = IF row \in note_tags \ t.deleted
                                               THEN {} ELSE {row}]
               /\ UNCHANGED tagOp
       /\ UNCHANGED <<notes, note_tags>>
       /\ UnchangedByUpdate

\* lines 860-861: conn.commit(); return True
update_commit(w) ==
    LET t == updTxn[w]
    IN /\ t.pc = "tagged"
       /\ notes' = [notes EXCEPT
                      ![t.note_id].content =
                          IF t.content # None THEN Val(t.content) ELSE @,
                      ![t.note_id].note_date =
                          IF t.note_date # None THEN Val(t.note_date) ELSE @]
       /\ note_tags' = (note_tags \ t.deleted) \cup t.inserted
       /\ tagOp' = UpdRec(t, TRUE, <<"SELECT", "COMMIT">>)
       /\ updTxn' = [updTxn EXCEPT ![w] = IdleUpd]
       /\ UnchangedByUpdate

(***************************************************************************)
(* The edit form of the Notes page: pages/1_Notes.py, display_edit_form    *)
(***************************************************************************)
\* get_user_tags: SELECT id, name, color, created_at FROM tags WHERE user_id
get_user_tags(user_id) ==
    IF dbUp THEN {i \in DOMAIN tags : tags[i].user_id = user_id} ELSE {}

\* The first option of the tag selectbox
NoTag == <<"N", "o", " ", "t", "a", "g">>

\* lines 53-54: tag_options = ["No tag"] + the names of the user's tags
tag_options(user_id) == {NoTag} \cup {tags[i].name : i \in get_user_tags(user_id)}

\* lines 99-105: selected_tag_id stays None for "No tag", otherwise it is the id
\* of the user's tag with the selected name
selected_tag_id(user_id, selected_tag_name) ==
    IF selected_tag_name # NoTag
          /\ \E i \in get_user_tags(user_id) : tags[i].name = selected_tag_name
    THEN Some(CHOOSE i \in get_user_tags(user_id) : tags[i].name = selected_tag_name)
    ELSE None

\* lines 121-146, "Save Changes" submitted for a note listed on the user's
\* page: sanitize and validate the content, then update_note_with_tag(note id,
\* user_id, sanitized_content, new_date.isoformat(), selected_tag_id)
display_edit_form(note_id, user_id, selected_tag_name, new_date, new_content) ==
    LET sanitized_content == sanitize_input(Some(new_content))
        tag_id == selected_tag_id(user_id, selected_tag_name)
        r == IF ~validate_note_content(Some(sanitized_content)).valid
             THEN [ok |-> FALSE, queries |-> <<>>,
                   notes |-> notes, note_tags |-> note_tags]
             ELSE IF ~dbUp
             THEN [ok |-> FALSE, queries |-> <<>>,
                   notes |-> notes, note_tags |-> note_tags]
             ELSE IF ~NoteOwned(notes, note_id, user_id)
             THEN [ok |-> FALSE, queries |-> <<"SELECT">>,
                   notes |-> notes, note_tags |-> note_tags]
             ELSE UpdateOwnedNote(note_id, Some(sanitized_content),
                                  Some(new_date), tag_id)
    IN /\ NoteOwned(notes, note_id, user_id)
       /\ selected_tag_name \in tag_options(user_id)
       /\ notes' = r.notes
       /\ note_tags' = r.note_tags
       /\ tagOp' = [TagRec("display_edit_form", r.ok, None, r.queries,
                           note_id, user_id, tag_id, selected_tag_name)
                       EXCEPT !.content = Some(new_content),
                              !.note_date = Some(new_date)]
       /\ UNCHANGED <<tags, nextTagId, nextNoteId, txn>>
       /\ UnchangedByTags

(***************************************************************************)
(* Reading notes with their tags: database.py, get_weekly_notes (lines     *)
(* 439-489) and get_all_notes_for_user (lines 570-614). A note_date is the *)
(* ordinal of the day (date.toordinal(): day 1 is a Monday); created_at    *)
(* grows with the id the notes sequence hands out.                         *)
(***************************************************************************)
\* date.weekday(): Monday is 0 and Sunday is 6 (an ISO weekday, told apart by C24)
weekday_Iso(day) == ((day + 6) % 7) + 1

\* date.weekday(): Monday is 0 and Sunday is 6
weekday(day) == (day + 6) % 7

\* ORDER BY n.note_date DESC, n.created_at DESC: note a comes before note b
Before(a, b) ==
    \/ notes[a].note_date > notes[b].note_date
    \/ notes[a].note_date = notes[b].note_date /\ a > b

\* The notes the WHERE clause keeps, in the order of ORDER BY
SortedNotes(selected) ==
    [k \in 1..Cardinality(selected) |->
        CHOOSE n \in selected :
            Cardinality({m \in selected : Before(m, n)}) = k - 1]

\* FROM notes n LEFT JOIN note_tags nt ON n.id = nt.note_id LEFT JOIN tags t
\* ON nt.tag_id = t.id: the rows <<note id, tag id>> of one note, one per
\* association or one without tag for a note that has none, in each order the
\* database may hand them out (ORDER BY does not order the rows of one note)
JoinedRows(note_id) ==
    LET mine == {nt[2] : nt \in {x \in note_tags : x[1] = note_id}}
    IN IF mine = {} THEN {<< <<note_id, None>> >>}
       ELSE {[i \in DOMAIN s |-> <<note_id, Some(s[i])>>] :
                s \in {p \in [1..Cardinality(mine) -> mine] :
                          \A i, j \in DOMAIN p : i # j => p[i] # p[j]}}

\* The rows of the query, in each order the database may hand them out
RECURSIVE Orderings(_)
Orderings(sorted) ==
    IF sorted = <<>> THEN {<<>>}
    ELSE {head \o rest : head \in JoinedRows(Head(sorted)),
                         rest \in Orderings(Tail(sorted))}

\* LIMIT %s
Limit(rows, limit) ==
    SubSeq(rows, 1, IF limit < Len(rows) THEN limit ELSE Len(rows))

\* "Group notes and their tags": notes_dict keeps the notes in the order of
\* their first row, each with the tags of its rows; list(notes_dict.values())
RECURSIVE GroupRows(_, _)
GroupRows(rows, notes_dict) ==
    IF rows = <<>> THEN notes_dict
    ELSE LET row   == Head(rows)
             known == \E k \in DOMAIN notes_dict : notes_dict[k].id = row[1]
             d1    == IF known THEN notes_dict
                      ELSE Append(notes_dict, [id |-> row[1], tags |-> <<>>])
             d2    == [k \in DOMAIN d1 |->
                         IF d1[k].id = row[1] /\ row[2] # None
                         THEN [d1[k] EXCEPT !.tags = Append(@, Val(row[2]))]
                         ELSE d1[k]]
         IN GroupRows(Tail(rows), d2)

\* get_all_notes_for_user(user_id, limit): [] without a connection
get_all_notes_for_user(user_id, limit) ==
    LET mine == {n \in DOMAIN notes : notes[n].user_id = user_id}
    IN /\ \E s \in Orderings(SortedNotes(mine)) :
             call' = [fn |-> "get_all_notes_for_user", user_id |-> user_id,
                      limit |-> limit,
                      result |-> IF dbUp THEN GroupRows(Limit(s, limit), <<>>)
                                 ELSE <<>>]
       /\ UnchangedByCall

\* get_weekly_notes(user_id) on the day today = datetime.now().date()
get_weekly_notes(user_id, today) ==
    LET days_since_monday == weekday(today)
        week_start == today - days_since_monday
        week_end   == week_start + 6
        mine == {n \in DOMAIN notes :
                    /\ notes[n].user_id = user_id
                    /\ notes[n].note_date >= week_start
                    /\ notes[n].note_date <= week_end}
    IN /\ \E s \in Orderings(SortedNotes(mine)) :
             call' = [fn |-> "get_weekly_notes", user_id |-> user_id,
                      today |-> today, week_start |-> week_start,
                      week_end |-> week_end,
                      result |-> IF dbUp THEN GroupRows(s, <<>>) ELSE <<>>]
       /\ UnchangedByCall

(***************************************************************************)
(* Initial states and specifications                                       *)
(***************************************************************************)
AdminRow(active) ==
    [username |-> "admin", email |-> "admin@example.com",
     password_hash |-> hash_password(PwAdmin, 1), display_name |-> "Administrator",
     is_active |-> active, last_login |-> None]

NoServer == [failAt |-> "none", tls_supported |-> TRUE]

InitAuth ==
    /\ now = 1
    /\ \E active \in BOOLEAN : app_users = [i \in {1} |-> AdminRow(active)]
    /\ nextUserId = 2
    /\ session = <<>>
    /\ authOp = AuthRec("start", FALSE, None, "", <<>>, <<>>)
    /\ reg = [w \in Workers |-> IdleReg]

SmtpEnvs ==
    [st : SourceKinds, file : SourceKinds, env : SourceKinds,
     USER : {"", "user@test"}, PASSWORD : {"", "secret"},
     USE_TLS : BOOLEAN, USE_SSL : BOOLEAN]

\* The configuration of test_send_email_tls_success, found in the environment
TestEnv ==
    [st |-> "absent", file |-> "absent", env |-> "ok",
     USER |-> "user@test", PASSWORD |-> "secret", USE_TLS |-> TRUE, USE_SSL |-> FALSE]

InitMail ==
    /\ sent_emails = <<>>
    /\ nextEmailId = 1
    /\ flow = IdleFlow
    /\ mailOp = [called |-> FALSE, by |-> "", to |-> <<>>, subject |-> "",
                 body |-> "", srv |-> NoServer, outcome |-> "", steps |-> <<>>,
                 msg |-> None]

InitTags ==
    /\ tags = <<>>
    /\ nextTagId = 1
    /\ notes = <<>>
    /\ nextNoteId = 1
    /\ note_tags = {}
    /\ txn = [w \in Workers |-> IdleTxn]
    /\ tagOp = TagRec("start", FALSE, None, <<>>, 0, 0, None, <<>>)
    /\ call = NoCall
    /\ InitPage

\* SpecAuth: the users table and one browser session. The change password
\* form is tried with a right, a wrong and a missing current password, and with
\* new passwords that pass and that fail validate_password.
OldPasswords == {PwAdmin, PwSecret, <<>>}
NewPasswords == {PwAdmin, PwSecret, PwShort, PwPadded}

InitA == dbUp = TRUE /\ InitAuth /\ InitMail /\ smtpEnv = TestEnv /\ InitTags

NextAuth ==
    \/ require_authentication
    \/ \E u \in Usernames, p \in Passwords : login_form(u, p)
    \/ login_form_change_password
    \/ login_form_register
    \/ \E u \in Usernames, e \in Emails, p \in Passwords, s \in Salts :
          \E c \in {p, PwShort} : registration_form(u, u, e, p, c, s)
    \/ registration_form_back
    \/ \E u \in Usernames, o \in OldPasswords, n \in NewPasswords, s \in Salts :
          \E c \in {n, PwShort} : change_password_form(u, o, n, c, s)
    \/ change_password_form_back
    \/ logout_button
    \/ show_user_profile
    \/ get_connection

SpecAuth == InitA /\ [][NextAuth]_vars

\* SpecSend: send_email as a function of the configuration found, the
\* arguments and the server's behaviour
InitS == dbUp = TRUE /\ InitAuth /\ InitMail /\ smtpEnv \in SmtpEnvs /\ InitTags

NextSend ==
    /\ ~mailOp.called
    /\ \E to \in Recipients, su \in Subjects, b \in Bodies, srv \in ServerBehaviours :
          send_email_call(to, su, b, srv)

SpecSend == InitS /\ [][NextSend]_vars

\* SpecMail: the Summary page's Send Email handler
\* under the settings of test_send_email_tls_success, found in the environment,
\* malformed there, or nowhere; and three servers: one that accepts the
\* message, one that cannot be reached, one without STARTTLS
MailEnvs == {[TestEnv EXCEPT !.env = k] : k \in SourceKinds}
FlowServers == {NoServer, [NoServer EXCEPT !.failAt = "connect"],
                [NoServer EXCEPT !.tls_supported = FALSE]}

InitM == dbUp = TRUE /\ InitAuth /\ InitMail /\ smtpEnv \in MailEnvs /\ InitTags

NextMail ==
    \/ \E to \in Recipients, su \in Subjects, b \in Bodies :
          summary_send_clicked(to, su, b)
    \/ \E srv \in FlowServers : summary_send_email(srv)
    \/ summary_record_status
    \/ summary_rerun
    \/ get_connection

SpecMail == InitM /\ [][NextMail]_vars

\* The users table of the tag and note specifications: two active users
BobRow ==
    [username |-> "bob", email |-> "bob@example.com",
     password_hash |-> hash_password(PwSecret, 2), display_name |-> "bob",
     is_active |-> TRUE, last_login |-> None]

InitTwoUsers ==
    /\ now = 1
    /\ app_users = [i \in UserIds |-> IF i = 1 THEN AdminRow(TRUE) ELSE BobRow]
    /\ nextUserId = 3
    /\ session = <<>>
    /\ authOp = AuthRec("start", FALSE, None, "", <<>>, <<>>)
    /\ reg = [w \in Workers |-> IdleReg]

\* SpecTags: create_tag on two connections at once, and delete_tag
InitT == dbUp = TRUE /\ InitTwoUsers /\ InitMail /\ smtpEnv = TestEnv /\ InitTags

NextTags ==
    \/ \E w \in Workers, u \in UserIds, n \in TagNames : create_tag_insert(w, u, n)
    \/ \E w \in Workers : create_tag_commit(w)
    \/ \E u \in UserIds, t \in 1..MaxTags : delete_tag(u, t)
    \/ get_connection

SpecTags == InitT /\ [][NextTags]_vars

\* SpecNotes: notes and their tag associations, one call at a time. Each user
\* starts with the first default tag of create_default_tags.
DefaultTags ==
    [i \in UserIds |-> [user_id |-> i,
                        name |-> <<"P", "r", "o", "f", "e", "s", "s", "i", "o", "n", "a", "l">>,
                        color |-> "#1f77b4"]]

InitN ==
    /\ dbUp = TRUE /\ InitTwoUsers /\ InitMail /\ smtpEnv = TestEnv
    /\ tags = DefaultTags
    /\ nextTagId = 3
    /\ notes = <<>>
    /\ nextNoteId = 1
    /\ note_tags = {}
    /\ txn = [w \in Workers |-> IdleTxn]
    /\ tagOp = TagRec("start", FALSE, None, <<>>, 0, 0, None, <<>>)
    /\ call = NoCall
    /\ InitPage

\* A user_id that is no row of app_users
UnknownUser == MaxUsers + 1

\* tag_id arguments: none, 0, each user's tag, and an id that is no tag
TagIdArgs == {None, Some(0), Some(1), Some(2), Some(3)}

NextNotes ==
    \/ \E u \in UserIds, t \in TagIdArgs :
          save_note_with_tag(u, "first text", "2024-01-01", t)
    \/ save_note_with_tag(UnknownUser, "first text", "2024-01-01", Some(1))
    \/ \E n \in 1..MaxNotes, u \in UserIds, t \in TagIdArgs,
          c \in {None, Some("second text")}, d \in {None, Some("2024-01-02")} :
          update_note_with_tag(n, u, c, d, t)
    \/ \E u \in UserIds, t \in {None, Some(1)} :
          update_note_with_tag(MaxNotes + 1, u, None, None, t)

SpecNotes == InitN /\ [][NextNotes]_vars

\* register_user called from two sessions at once
RegUsernames == {"admin", "bob", ""}
RegEmails    == {"admin@example.com", "bob@example.com"}
RegPasswords == {PwSecret, PwShort}

InitR == dbUp = TRUE /\ InitAuth /\ InitMail /\ InitTags /\ smtpEnv = TestEnv

NextRegister ==
    \/ \E w \in Workers, u \in RegUsernames, e \in RegEmails, p \in RegPasswords :
          register_user_begin(w, u, e, p, 1)
    \/ \E w \in Workers : register_user_check_email(w)
    \/ \E w \in Workers : register_user_insert(w)
    \/ \E w \in Workers : register_user_commit(w)
    \/ get_connection

SpecRegister == InitR /\ [][NextRegister]_vars

\* DatabaseManager() under every combination of configuration sources
InitD ==
    /\ dbUp = TRUE /\ InitAuth /\ InitMail /\ smtpEnv = TestEnv
    /\ tags = <<>> /\ nextTagId = 1 /\ notes = <<>> /\ nextNoteId = 1
    /\ note_tags = {} /\ txn = [w \in Workers |-> IdleTxn]
    /\ tagOp = TagRec("start", FALSE, None, <<>>, 0, 0, None, <<>>)
    /\ \E f \in Sources, e \in EnvSources, st \in Sources :
          call = [fn |-> "DatabaseManager", done |-> FALSE, file |-> f,
                  env |-> e, stsecrets |-> st,
                  result |-> [raised |-> "", params |-> None, source |-> ""]]
    /\ InitPage
    /\ app_users[1].is_active

NextDatabaseManager == new_DatabaseManager

SpecDatabaseManager == InitD /\ [][NextDatabaseManager]_vars

\* The rest of the program while one function is called on its own
InitCall(calls) ==
    /\ dbUp = TRUE /\ InitAuth /\ InitMail /\ smtpEnv = TestEnv
    /\ tags = <<>> /\ nextTagId = 1 /\ notes = <<>> /\ nextNoteId = 1
    /\ note_tags = {} /\ txn = [w \in Workers |-> IdleTxn]
    /\ tagOp = TagRec("start", FALSE, None, <<>>, 0, 0, None, <<>>)
    /\ app_users[1].is_active
    /\ call \in calls
    /\ InitPage

\* The texts of at most n characters over an alphabet
TextsUpTo(alphabet, n) == UNION {[1..k -> alphabet] : k \in 0..n}

\* truncate_text on every short text with every small max_length
InitTruncate ==
    InitCall({[fn |-> "truncate_text", done |-> FALSE, text |-> t,
               max_length |-> m, result |-> <<>>] :
              t \in TextsUpTo({"a", "."}, MaxText), m \in -1..MaxText + 1})

NextTruncate == apply_truncate_text

\* sanitize_input on None and on every short text of letters, blanks,
\* newlines, tabs, carriage returns and NUL characters
SanitizeChars == {"a", " ", "\n", "\t", "\r", "\\0"}

InitSanitize ==
    InitCall({[fn |-> "sanitize_input", done |-> FALSE, text |-> t,
               result |-> <<>>] :
              t \in {None} \cup {Some(x) : x \in TextsUpTo(SanitizeChars, MaxText)}})

NextSanitize == apply_sanitize_input

SpecSanitize == InitSanitize /\ [][NextSanitize]_vars

\* The cores of the notes validate_note_content is tried on
NoteCores ==
    {<<>>,
     \* Hi
     <<"H", "i">>,
     \* abcd
     <<"a", "b", "c", "d">>,
     \* abcde
     <<"a", "b", "c", "d", "e">>,
     \* a b c
     <<"a", " ", "b", " ", "c">>,
     \* <script>x</script>
     <<"<", "s", "c", "r", "i", "p", "t", ">", "x", "<", "/", "s", "c", "r",
       "i", "p", "t", ">">>,
     \* <SCRIPT src=a>x</Script>
     <<"<", "S", "C", "R", "I", "P", "T", " ", "s", "r", "c", "=", "a", ">",
       "x", "<", "/", "S", "c", "r", "i", "p", "t", ">">>,
     \* <script><newline>x</script>
     <<"<", "s", "c", "r", "i", "p", "t", ">", "\n", "x", "<", "/", "s",
       "c", "r", "i", "p", "t", ">">>,
     \* go javascript:x
     <<"g", "o", " ", "j", "a", "v", "a", "s", "c", "r", "i", "p", "t", ":",
       "x">>,
     \* <a onclick=b>
     <<"<", "a", " ", "o", "n", "c", "l", "i", "c", "k", "=", "b", ">">>,
     \* <a>b onclick=b
     <<"<", "a", ">", "b", " ", "o", "n", "c", "l", "i", "c", "k", "=", "b">>,
     \* <aonclick=b>
     <<"<", "a", "o", "n", "c", "l", "i", "c", "k", "=", "b", ">">>,
     \* x onload = 'y'
     <<"x", " ", "o", "n", "l", "o", "a", "d", " ", "=", " ", "'", "y", "'">>,
     \* xonload='y'
     <<"x", "o", "n", "l", "o", "a", "d", "=", "'", "y", "'">>,
     \* x on="y"
     <<"x", " ", "o", "n", "=", "\"", "y", "\"">>}

\* The notes: a core between leading and trailing whitespace, as it is or
\* filled up with "x" or with blanks to the maximum length and to one
\* character more
NoteTexts ==
    LET pads  == {<<>>, <<" ">>, <<"\n", "\t">>}
        plain == {lead \o core \o trail :
                     lead \in pads, core \in NoteCores, trail \in pads}
        FilledTo(text, c, n) == text \o [k \in 1..n - Len(text) |-> c]
    IN plain \cup {FilledTo(t, c, n) : t \in plain, c \in {"x", " "},
                    n \in {note_max_length, note_max_length + 1}}

InitValidate ==
    InitCall({[fn |-> "validate_note_content", done |-> FALSE, text |-> t,
               result |-> Verdict(FALSE, "")] :
              t \in {None} \cup {Some(x) : x \in NoteTexts}})

NextValidate == apply_validate_note_content

SpecValidate == InitValidate /\ [][NextValidate]_vars

SpecTruncate == InitTruncate /\ [][NextTruncate]_vars

\* The replies draft_weekly_email is given: a subject put together from up
\* to MaxPieces pieces (none: the reply has no subject), with and without a
\* recipient name, bullets, next-week items and a display name
MaxPieces == 3

SubjectPieces ==
    {<<"S", "u", "b", "j", "e", "c", "t", ":">>, <<"a">>, <<" ">>, <<"\n">>, <<"R", "e", ":">>}

RECURSIVE Pieced(_)
Pieced(n) ==
    IF n = 0 THEN {<<>>}
    ELSE Pieced(n - 1) \cup {s \o p : s \in Pieced(n - 1), p \in SubjectPieces}

InitDraft ==
    InitCall({[fn |-> "draft_weekly_email", done |-> FALSE,
               subject |-> s, recipient_name |-> r, bullets |-> b,
               next_week |-> nw, user_display_name |-> u,
               result |-> [draft |-> <<>>, subject |-> <<>>, body_text |-> <<>>]] :
              s \in {None} \cup {Some(x) : x \in Pieced(MaxPieces)},
              r \in {None, Some(<<"B", "o">>)},
              b \in {<<>>, << <<"d", "i", "d", " ", "x">> >>},
              nw \in {<<>>, << <<"p", "l", "a", "n">> >>},
              u \in {<<>>, <<"A", "l">>}})

NextDraft == apply_draft_weekly_email

SpecDraft == InitDraft /\ [][NextDraft]_vars

\* One browser session: two users who each have a note log in and out, save
\* their manager in Settings and open the Summary page
BossPadded == <<" ", "m", "@", "x", ".", "y">>

InitSession ==
    /\ dbUp = TRUE /\ InitTwoUsers /\ InitMail /\ smtpEnv = TestEnv
    /\ tags = <<>> /\ nextTagId = 1
    /\ notes = [i \in UserIds |-> [user_id |-> i, content |-> "first text",
                                   note_date |-> "2024-01-01"]]
    /\ nextNoteId = MaxUsers + 1
    /\ note_tags = {} /\ txn = [w \in Workers |-> IdleTxn]
    /\ tagOp = TagRec("start", FALSE, None, <<>>, 0, 0, None, <<>>)
    /\ call = NoCall
    /\ InitPage

NextSession ==
    \/ require_authentication
    \/ login_form("admin", PwAdmin)
    \/ login_form("bob", PwSecret)
    \/ logout_button
    \/ \E e \in {BossPadded, <<"m", "@", "x">>} : settings_save(<<"B", "o">>, e)
    \/ \E clicked \in BOOLEAN, r \in {None, Some(<<"o", "@", "z">>)} :
          summary_page(clicked, None, r)
    \/ summary_page(FALSE, Some(<<"m", "y", " ", "t", "e", "x", "t">>), None)

SpecSession == InitSession /\ [][NextSession]_vars

\* One browser session over time: logins, logouts and page runs
NextTimeout ==
    \/ require_authentication
    \/ login_form("admin", PwAdmin)
    \/ login_form("bob", PwShort)
    \/ logout_button
    \/ Tick

SpecTimeout == InitSession /\ [][NextTimeout]_vars

\* save_note_with_tag, and update_note_with_tag on two connections at once
NextUpdate ==
    \/ \E t \in {None, Some(1)} :
          save_note_with_tag(1, "first text", "2024-01-01", t)
    \/ \E w \in Workers, u \in UserIds, c \in {None, Some("second text")},
          t \in {None, Some(0), Some(1), Some(2), Some(3)} :
          update_begin(w, 1, u, c, None, t)
    \/ \E w \in Workers : update_notes_row(w)
    \/ \E w \in Workers : update_delete_scan(w)
    \/ \E w \in Workers : update_delete_rows(w)
    \/ \E w \in Workers : update_insert(w)
    \/ \E w \in Workers : update_commit(w)

SpecUpdate == InitN /\ [][NextUpdate]_vars

\* Notes are saved with or without a tag and then edited on the Notes page
EditContents ==
    {<<"n", "o", "t", "e", " ", "2">>, <<" ", "n", "o", "t", "e", "s", "\\0">>,
     <<"H", "i">>}

EditTagNames == {NoTag} \cup {DefaultTags[i].name : i \in DOMAIN DefaultTags}

NextEdit ==
    \/ \E u \in UserIds, t \in {None, Some(1), Some(2)} :
          save_note_with_tag(u, <<"f", "i", "r", "s", "t">>, "2024-01-01", t)
    \/ \E n \in 1..MaxNotes, u \in UserIds, c \in EditContents,
          d \in NoteDates, name \in EditTagNames :
          display_edit_form(n, u, name, d, c)

SpecEdit == InitN /\ [][NextEdit]_vars

\* Notes of two users over two weeks (day 8 is a Monday, day 14 the Sunday
\* after it) are read while update_note_with_tag runs on two connections
InitQuery ==
    /\ dbUp = TRUE /\ InitTwoUsers /\ InitMail /\ smtpEnv = TestEnv
    /\ tags = DefaultTags /\ nextTagId = 3
    /\ notes = <<[user_id |-> 1, content |-> "first text", note_date |-> 7],
                 [user_id |-> 1, content |-> "first text", note_date |-> 8],
                 [user_id |-> 1, content |-> "first text", note_date |-> 14],
                 [user_id |-> 2, content |-> "first text", note_date |-> 10],
                 [user_id |-> 1, content |-> "first text", note_date |-> 14]>>
    /\ nextNoteId = 6
    /\ note_tags = {<<1, 1>>} /\ txn = [w \in Workers |-> IdleTxn]
    /\ tagOp = TagRec("start", FALSE, None, <<>>, 0, 0, None, <<>>)
    /\ call = NoCall
    /\ InitPage

NextQuery ==
    \/ \E w \in Workers, t \in {Some(1), Some(2)} :
          update_begin(w, 2, 1, None, None, t)
    \/ \E w \in Workers : update_notes_row(w)
    \/ \E w \in Workers : update_delete_scan(w)
    \/ \E w \in Workers : update_delete_rows(w)
    \/ \E w \in Workers : update_insert(w)
    \/ \E w \in Workers : update_commit(w)
    \/ \E u \in UserIds, limit \in {0, 2, 4, 5} : get_all_notes_for_user(u, limit)
    \/ \E u \in UserIds, today \in {7, 8, 11, 14, 15} : get_weekly_notes(u, today)

SpecQuery == InitQuery /\ [][NextQuery]_vars

\* Every DatabaseManager method of the model, with and without a connection
InitC ==
    /\ dbUp = TRUE /\ InitTwoUsers /\ InitMail /\ smtpEnv = TestEnv
    /\ tags = [i \in {1} |-> DefaultTags[i]]
    /\ nextTagId = 2
    /\ notes = <<>>
    /\ nextNoteId = 1
    /\ note_tags = {}
    /\ txn = [w \in Workers |-> IdleTxn]
    /\ tagOp = TagRec("start", FALSE, None, <<>>, 0, 0, None, <<>>)
    /\ call = NoCall
    /\ InitPage

NextNoConnection ==
    \/ get_connection
    \/ \E by \in {"username", "email", "id"} : db_get_user(by, "admin", 1)
    \/ db_create_user_with_auth("carol", PwSecret, 1)
    \/ db_update_user_last_login(1)
    \/ db_update_user_password(1, PwSecret, 2)
    \/ db_save_sent_email(1, RcptBoss, "Subject A", "Hello body")
    \/ db_update_sent_email_status(1, "sent", None)
    \/ create_tag_insert(1, 1, NameWork)
    \/ create_tag_commit(1)
    \/ delete_tag(1, 1)
    \/ save_note_with_tag(1, "first text", "2024-01-01", Some(1))
    \/ update_note_with_tag(1, 1, Some("second text"), None, Some(0))

SpecNoConnection == InitC /\ [][NextNoConnection]_vars

\* Notes and their tags while tags are deleted
NextDeleteTag ==
    \/ \E u \in UserIds, t \in TagIdArgs :
          save_note_with_tag(u, "first text", "2024-01-01", t)
    \/ \E n \in 1..MaxNotes, u \in UserIds, t \in {Some(1), Some(2)} :
          update_note_with_tag(n, u, None, None, t)
    \/ \E u \in UserIds, t \in 1..(MaxTags + 1) : delete_tag(u, t)

SpecDeleteTag == InitN /\ [][NextDeleteTag]_vars

(***************************************************************************)
(* Properties of authentication, checked under SpecAuth                    *)
(***************************************************************************)
\* The active user named by the form whose stored hash verifies the password
ActiveUserWith(table, username, password) ==
    {i \in DOMAIN table : /\ table[i].username = username
                          /\ table[i].is_active
                          /\ verify_password(password, table[i].password_hash)}

\* A step in which a run of the authentication pages acted
AuthStep == authVars' # authVars

\* C1: change_password, called (from change_password_form) for an active user
\* with the correct current password and a new password that passes
\* validate_password, returns True and replaces the stored hash, after which
\* login_user succeeds with the new password and fails with the old one.
C1_ChangePasswordSucceeds ==
    [][ \A i \in ActiveUserWith(app_users, authOp'.username, authOp'.password) :
          ( /\ AuthStep
            /\ authOp'.op = "change_password_form"
            /\ authOp'.user # None
            /\ dbUp
            /\ validate_password(authOp'.new_password)
            /\ authOp'.new_password # authOp'.password )
          => /\ authOp'.ok
             /\ app_users'[i].password_hash # app_users[i].password_hash
             /\ login_user(app_users', authOp'.username, authOp'.new_password).user # None
             /\ login_user(app_users', authOp'.username, authOp'.password).user = None
      ]_vars

\* C5: the session becomes authenticated only by a login-form run in which
\* login_user returned a user; login_user returns a user only for an active
\* user of that username whose stored hash verifies the password; a failed
\* login returns None and leaves the session's authentication state as it was.
C5_AuthenticatedOnlyByLogin ==
    [][ /\ (~is_authenticated(session) /\ is_authenticated(session'))
           => (authOp'.op = "login_form" /\ authOp'.ok /\ authOp'.user # None)
        /\ (AuthStep /\ authOp'.op \in {"login_form", "change_password_form"}
            /\ authOp'.user # None)
           => /\ dbUp
              /\ Val(authOp'.user).id
                    \in ActiveUserWith(app_users, authOp'.username, authOp'.password)
        /\ (AuthStep /\ authOp'.op = "login_form" /\ authOp'.ok)
           => session'["user_id"] = Some(Val(authOp'.user).id)
        /\ (AuthStep /\ authOp'.op = "login_form" /\ ~authOp'.ok)
           => /\ authOp'.user = None
              /\ is_authenticated(session') = is_authenticated(session)
              /\ get_current_user(session') = get_current_user(session)
      ]_vars

C5_Witness ==
    /\ authOp.op = "login_form" /\ authOp.ok
    /\ is_authenticated(session)
    /\ session["username"] = Some("bob")

\* C6: after logout_user the session is not authenticated and has no current
\* user, and it stays so, require_authentication returning False, on every
\* run that is not a successful login.
C6_LoggedOutUntilLogin ==
    [][ /\ (AuthStep /\ authOp'.op = "logout_user")
           => (~is_authenticated(session') /\ get_current_user(session') = None)
        /\ (~is_authenticated(session)
            /\ ~(AuthStep /\ authOp'.op = "login_form" /\ authOp'.ok))
           => /\ ~is_authenticated(session')
              /\ get_current_user(session') = None
              /\ (AuthStep /\ authOp'.op = "require_authentication") => ~authOp'.ok
      ]_vars

C6_Witness ==
    /\ authOp.op = "logout_user"
    /\ ~is_authenticated(session)
    /\ get_current_user(session) = None
    /\ \E i \in DOMAIN app_users : app_users[i].last_login # None

(***************************************************************************)
(* Properties of send_email, checked under SpecSend                        *)
(***************************************************************************)
\* No source holds a usable SMTP configuration: get_smtp_config has nothing
\* to return
ConfigMissing(env) ==
    env.st # "ok" /\ env.file = "absent" /\ env.env = "absent"

RecipientInvalid(to_address) ==
    strip(to_address) = <<>> \/ ~Contains(strip(to_address), "@")

\* C7: every call of send_email ends by returning True, returning False or
\* raising EmailSendError, whatever the configuration sources hold and
\* however the server behaves.
C7_DocumentedOutcomes ==
    mailOp.called => mailOp.outcome \in {"True", "False", "EmailSendError"}

\* C8: send_email raises EmailSendError, and opens no SMTP connection, when
\* the configuration is missing or the trimmed recipient is empty or has no '@'.
C8_RejectedBeforeConnecting ==
    (mailOp.called /\ (ConfigMissing(smtpEnv) \/ RecipientInvalid(mailOp.to)))
    => (mailOp.outcome = "EmailSendError" /\ mailOp.steps = <<>>)

\* The configuration a successful send_email used
UsedTls   == smtpEnv.USE_TLS /\ ~smtpEnv.USE_SSL
UsedLogin == smtpEnv.USER # "" /\ smtpEnv.PASSWORD # ""

\* The calls of a successful send, given whether the second ehlo is made
StepsInOrder(secondEhlo) ==
    <<IF smtpEnv.USE_SSL THEN "SMTP_SSL" ELSE "SMTP", "ehlo">>
    \o (IF UsedTls THEN <<"starttls">> ELSE <<>>)
    \o (IF secondEhlo THEN <<"ehlo">> ELSE <<>>)
    \o (IF UsedLogin THEN <<"login">> ELSE <<>>)
    \o <<"send_message">>

\* C9 as stated: a successful send opens one connection (SMTP_SSL exactly
\* when USE_SSL), then ehlo, then starttls and a second ehlo exactly when
\* USE_TLS and not USE_SSL, then login exactly when USER and PASSWORD are set,
\* then one send_message.
C9_StepsAsStated ==
    (mailOp.called /\ mailOp.outcome = "True")
    => mailOp.steps = StepsInOrder(UsedTls)

\* C9: a successful send opens one connection (SMTP_SSL exactly when USE_SSL),
\* then ehlo, then starttls exactly when USE_TLS and not USE_SSL, then a second
\* ehlo exactly when starttls was issued and the server accepted it, then login
\* exactly when USER and PASSWORD are set, then one send_message; login never
\* precedes starttls.
C9_StepsInOrder ==
    (mailOp.called /\ mailOp.outcome = "True")
    => /\ mailOp.steps = StepsInOrder(UsedTls /\ mailOp.srv.tls_supported)
       /\ \A i, j \in DOMAIN mailOp.steps :
             (mailOp.steps[i] = "login" /\ mailOp.steps[j] = "starttls") => j < i

C9_Witness ==
    /\ mailOp.called /\ mailOp.outcome = "True"
    /\ UsedTls /\ UsedLogin /\ ~mailOp.srv.tls_supported
    /\ mailOp.steps = <<"SMTP", "ehlo", "starttls", "login", "send_message">>

(***************************************************************************)
(* Properties of the Send Email flow, checked under SpecMail               *)
(***************************************************************************)
\* C3: once the flow has finished for a record it created, the record is
\* 'sent' exactly when send_email returned True and 'failed' with an error
\* message otherwise; it is never left 'queued'.
C3_StatusRecorded ==
    (flow.pc = "done" /\ flow.email_id # None)
    => LET r == sent_emails[Val(flow.email_id)]
       IN /\ r.status # "queued"
          /\ r.status = "sent" <=> flow.outcome = "True"
          /\ flow.outcome # "True" => (r.status = "failed" /\ r.error_message # None)

\* The records holding the email of the flow in status 'queued'
QueuedFor(f) ==
    {i \in DOMAIN sent_emails : /\ sent_emails[i].status = "queued"
                                /\ sent_emails[i].to_email = f.to
                                /\ sent_emails[i].subject = f.subject
                                /\ sent_emails[i].body = f.body}

\* The step in which the page calls send_email
PageSends == flow.pc = "saved" /\ flow'.pc = "returned"

\* C4 as stated: send_email is called for an email only after a 'queued'
\* record has been committed for it.
C4_RecordBeforeSend ==
    [][ PageSends => QueuedFor(flow) # {} ]_vars

\* C4: send_email is called only after save_sent_email was attempted for the
\* email; whenever save_sent_email returned an id, the record of that id was
\* committed with status 'queued' and the email's recipient, subject and body
\* before send_email is called with them.
C4_SavedRecordBeforeSend ==
    [][ PageSends
        => /\ mailOp'.by = "page"
           /\ mailOp'.to = flow.to /\ mailOp'.subject = flow.subject
           /\ mailOp'.body = flow.body
           /\ flow.email_id # None => Val(flow.email_id) \in QueuedFor(flow)
      ]_vars

C4_Witness ==
    /\ flow.pc = "returned" /\ flow.email_id # None
    /\ mailOp.called /\ mailOp.by = "page" /\ mailOp.steps # <<>>
    /\ Val(flow.email_id) \in QueuedFor(flow)

(***************************************************************************)
(* Properties of notes, checked under SpecNotes                            *)
(***************************************************************************)
\* A step in which a tag or note operation returned
TagStep == tagOp' # tagOp

\* C2: update_note_with_tag for a note that does not exist or belongs to
\* another user returns False having run the ownership query only, and leaves
\* every note's content and note_date and every tag association unchanged.
C2_UnauthorizedUpdateRejected ==
    [][ ( /\ TagStep
          /\ tagOp'.op = "update_note_with_tag"
          /\ dbUp
          /\ \/ tagOp'.note_id \notin DOMAIN notes
             \/ notes[tagOp'.note_id].user_id # tagOp'.user_id )
        => /\ ~tagOp'.ok
           /\ tagOp'.queries = <<"SELECT">>
           /\ notes' = notes
           /\ note_tags' = note_tags
      ]_vars

C2_Witness ==
    /\ tagOp.op = "update_note_with_tag"
    /\ ~tagOp.ok /\ tagOp.queries = <<"SELECT">>
    /\ tagOp.note_id \in DOMAIN notes
    /\ notes[tagOp.note_id].user_id # tagOp.user_id
    /\ tagOp.tag_id # None
    /\ \E nt \in note_tags : nt[1] = tagOp.note_id

(***************************************************************************)
(* Properties of tags, checked under SpecTags                              *)
(***************************************************************************)
NoDuplicateTags(table) ==
    \A i, j \in DOMAIN table :
        (table[i].user_id = table[j].user_id /\ table[i].name = table[j].name)
        => i = j

\* C10: no user ever has two tags of the same name; create_tag for a user and
\* trimmed name already in the table returns None after a rollback and leaves
\* the table unchanged, also when the row was committed by a concurrent
\* create_tag for the same pair.
C10_NoDuplicateTags ==
    /\ NoDuplicateTags(tags)
    /\ [][ /\ NoDuplicateTags(tags')
           /\ ( /\ TagStep
                /\ tagOp'.op = "create_tag"
                /\ dbUp
                /\ \E i \in DOMAIN tags : /\ tags[i].user_id = tagOp'.user_id
                                          /\ tags[i].name = strip(tagOp'.name) )
              => /\ ~tagOp'.ok /\ tagOp'.id = None
                 /\ tagOp'.queries = <<"INSERT", "ROLLBACK">>
                 /\ tags' = tags
         ]_vars

C10_Witness ==
    /\ tagOp.op = "create_tag" /\ ~tagOp.ok
    /\ tagOp.queries = <<"INSERT", "ROLLBACK">>
    /\ tagOp.name = NameWorkSp
    /\ \E i \in DOMAIN tags : tags[i].user_id = tagOp.user_id /\ tags[i].name = NameWork
    /\ \E w \in Workers : txn[w].pc = "inserted"

(***************************************************************************)
(* Further properties of notes, checked under SpecNotes                    *)
(***************************************************************************)
\* The tags associated with a note in a note_tags table
TagsOf(table, note_id) == {nt[2] : nt \in {x \in table : x[1] = note_id}}

\* C11: save_note_with_tag is one transaction. When it returns an id, the note
\* of that id and, if a tag_id was given, its association are both committed;
\* when either insert fails it returns None and neither is stored.
C11_SaveNoteAtomic ==
    [][ (TagStep /\ tagOp'.op = "save_note_with_tag")
        => LET given == tagOp'.tag_id # None /\ Val(tagOp'.tag_id) # 0
               bad   == \/ tagOp'.user_id \notin DOMAIN app_users
                        \/ given /\ Val(tagOp'.tag_id) \notin DOMAIN tags
           IN /\ tagOp'.id # None
                 => LET id == Val(tagOp'.id)
                    IN /\ id \notin DOMAIN notes /\ id \in DOMAIN notes'
                       /\ notes'[id].user_id = tagOp'.user_id
                       /\ \A i \in DOMAIN notes : notes'[i] = notes[i]
                       /\ note_tags' = note_tags \cup
                             (IF given THEN {<<id, Val(tagOp'.tag_id)>>} ELSE {})
              /\ tagOp'.id = None => (notes' = notes /\ note_tags' = note_tags)
              /\ bad => tagOp'.id = None
              /\ (dbUp /\ ~bad) => tagOp'.id # None
      ]_vars

C11_Witness ==
    /\ tagOp.op = "save_note_with_tag"
    /\ tagOp.id = None /\ tagOp.user_id \in DOMAIN app_users
    /\ tagOp.tag_id # None /\ Val(tagOp.tag_id) > 0
    /\ Val(tagOp.tag_id) \notin DOMAIN tags
    /\ tagOp.queries = <<"INSERT notes", "INSERT note_tags", "ROLLBACK">>
    /\ DOMAIN notes = {} /\ note_tags = {}

\* C12: after update_note_with_tag returned True for a call with tag_id > 0,
\* the note's tag associations are exactly {tag_id}, and no other note's
\* associations changed.
C12_TagReplaced ==
    [][ ( /\ TagStep
          /\ tagOp'.op = "update_note_with_tag" /\ tagOp'.ok
          /\ tagOp'.tag_id # None /\ Val(tagOp'.tag_id) > 0 )
        => /\ TagsOf(note_tags', tagOp'.note_id) = {Val(tagOp'.tag_id)}
           /\ \A n \in DOMAIN notes :
                 n # tagOp'.note_id => TagsOf(note_tags', n) = TagsOf(note_tags, n)
      ]_vars

C12_Witness ==
    /\ tagOp.op = "update_note_with_tag" /\ tagOp.ok
    /\ tagOp.tag_id = Some(2)
    /\ TagsOf(note_tags, tagOp.note_id) = {2}
    /\ tagOp.queries = <<"SELECT", "DELETE note_tags", "INSERT note_tags", "COMMIT">>

\* C13: in update_note_with_tag an argument passed as None leaves its
\* attribute unchanged. With content = None, note_date = None and tag_id = 0
\* the call, made by the note's owner, returns True, removes all associations
\* of the note and leaves its content and note_date; with tag_id = None the
\* associations are unchanged.
C13_NoneLeavesUnchanged ==
    [][ (TagStep /\ tagOp'.op = "update_note_with_tag")
        => LET n == tagOp'.note_id
               owned == n \in DOMAIN notes /\ notes[n].user_id = tagOp'.user_id
           IN /\ tagOp'.tag_id = None => note_tags' = note_tags
              /\ (tagOp'.tag_id = Some(0) /\ owned /\ dbUp)
                 => /\ tagOp'.ok
                    /\ TagsOf(note_tags', n) = {}
              /\ (tagOp'.content = None /\ n \in DOMAIN notes)
                 => notes'[n].content = notes[n].content
              /\ (tagOp'.note_date = None /\ n \in DOMAIN notes)
                 => notes'[n].note_date = notes[n].note_date
              /\ \A i \in DOMAIN notes : i # n => notes'[i] = notes[i]
      ]_vars

C13_Witness ==
    /\ tagOp.op = "update_note_with_tag" /\ tagOp.ok
    /\ tagOp.tag_id = Some(0) /\ tagOp.content = None /\ tagOp.note_date = None
    /\ tagOp.queries = <<"SELECT", "DELETE note_tags", "COMMIT">>
    /\ tagOp.note_id \in DOMAIN notes
    /\ TagsOf(note_tags, tagOp.note_id) = {}
    /\ notes[tagOp.note_id].content = "first text"

(***************************************************************************)
(* Properties of delete_tag, checked under SpecDeleteTag                   *)
(***************************************************************************)
\* C14: delete_tag(user_id, tag_id) deletes a tag only if it is user_id's and
\* returns True exactly when a tag was deleted; naming another user's tag it
\* returns False and removes no tag and no association.
C14_DeleteOwnTagOnly ==
    [][ (TagStep /\ tagOp'.op = "delete_tag")
        => LET t == Val(tagOp'.tag_id)
               mine == t \in DOMAIN tags /\ tags[t].user_id = tagOp'.user_id
           IN /\ tagOp'.ok <=> tags' # tags
              /\ tags' # tags
                 => /\ mine
                    /\ DOMAIN tags' = DOMAIN tags \ {t}
                    /\ \A i \in DOMAIN tags' : tags'[i] = tags[i]
              /\ ~mine => (~tagOp'.ok /\ tags' = tags /\ note_tags' = note_tags)
              /\ {nt \in note_tags : nt[2] # t} \subseteq note_tags'
      ]_vars

C14_Witness ==
    /\ tagOp.op = "delete_tag" /\ ~tagOp.ok
    /\ Val(tagOp.tag_id) \in DOMAIN tags
    /\ tags[Val(tagOp.tag_id)].user_id # tagOp.user_id
    /\ \E nt \in note_tags : nt[2] = Val(tagOp.tag_id)

(***************************************************************************)
(* Properties of concurrent registration, checked under SpecRegister       *)
(***************************************************************************)
NoDuplicateUsers(table) ==
    \A i, j \in DOMAIN table :
        (table[i].username = table[j].username \/ table[i].email = table[j].email)
        => i = j

\* The register_user call of w returns in this step
RegReturns(w) == reg[w].pc # "done" /\ reg'[w].pc = "done"

\* C15: after any interleaving of register_user calls no two app_users rows
\* share a username or an email; a call with a missing field, an invalid
\* password, or a username or email that a row already holds returns None and
\* creates no user.
C15_NoDuplicateUsers ==
    /\ NoDuplicateUsers(app_users)
    /\ [][ /\ NoDuplicateUsers(app_users')
           /\ \A w \in Workers :
                 ( /\ RegReturns(w)
                   /\ \/ reg'[w].username = "" \/ reg'[w].email = ""
                      \/ reg'[w].password = <<>>
                      \/ Len(reg'[w].password) < password_min_length
                      \/ \E i \in DOMAIN app_users :
                            \/ app_users[i].username = reg'[w].username
                            \/ app_users[i].email = reg'[w].email )
                 => (reg'[w].result = None /\ app_users' = app_users)
         ]_vars

C15_Witness ==
    /\ reg[1].pc = "done" /\ reg[1].result # None
    /\ reg[2].pc = "done" /\ reg[2].result = None
    /\ reg[1].username = reg[2].username
    /\ reg[1].email # reg[2].email
    /\ reg[2].at = "insert"
    /\ \A i \in DOMAIN app_users : app_users[i].is_active

(***************************************************************************)
(* Properties of a lost connection, checked under SpecNoConnection         *)
(***************************************************************************)
StoredData == <<app_users, sent_emails, tags, notes, note_tags>>

\* A step in which a DatabaseManager method is called and returns
\* (create_tag's commit runs on the connection its insert was given)
DbCallReturns ==
    /\ tagOp' # tagOp
    /\ \A w \in Workers : ~(txn[w].pc = "inserted" /\ txn'[w].pc = "idle")

\* C16: when get_connection returns None, the DatabaseManager method called
\* returns its failure value (False, None, or no row) and changes no stored
\* data.
C16_NoConnectionNoEffect ==
    [][ (~dbUp /\ DbCallReturns)
        => /\ StoredData' = StoredData
           /\ ~tagOp'.ok
           /\ tagOp'.id = None
           /\ tagOp'.queries = <<>>
      ]_vars

C16_Witness ==
    /\ ~dbUp
    /\ tagOp.op = "update_user_password" /\ ~tagOp.ok
    /\ app_users[1].password_hash = hash_password(PwAdmin, 1)
    /\ DOMAIN sent_emails # {} /\ DOMAIN notes # {}

(***************************************************************************)
(* Properties of DatabaseManager(), checked under SpecDatabaseManager      *)
(***************************************************************************)
\* A source that is there and gives every connection parameter a value
Complete(src) == src.present /\ AllValues(ParamsFrom(src.section))

\* C17: DatabaseManager() takes its parameters from exactly one source,
\* preferring a complete [database] section of secrets.toml, then the
\* environment, then Streamlit secrets; it raises ValueError when host,
\* database, user or password is missing from the result, and a manager that
\* was constructed has all four set.
C17_OneSourceOrValueError ==
    (call.fn = "DatabaseManager" /\ call.done)
    => LET r == call.result
       IN /\ r.raised \in {"", "ValueError"}
          /\ r.params # None
          /\ Val(r.params) \in {ParamsFrom(call.file.section),
                                ParamsFrom(call.env.section),
                                ParamsFrom(call.stsecrets.section)}
          /\ Complete(call.file) => Val(r.params) = ParamsFrom(call.file.section)
          /\ (~Complete(call.file) /\ Complete(call.env))
             => Val(r.params) = ParamsFrom(call.env.section)
          /\ (~Complete(call.file) /\ ~Complete(call.env) /\ call.stsecrets.present)
             => Val(r.params) = ParamsFrom(call.stsecrets.section)
          /\ r.raised = "ValueError" <=> \E k \in Required : Falsy(Val(r.params)[k])

(***************************************************************************)
(* Properties of truncate_text, checked under SpecTruncate                 *)
(***************************************************************************)
\* C20: truncate_text(text, max_length) returns the text unchanged when
\* len(text) <= max_length and otherwise a string of exactly max_length
\* characters that ends in '...'; the result is never longer than max_length.
C20_TruncatedToMaxLength ==
    (call.fn = "truncate_text" /\ call.done)
    => LET r == call.result
           n == Len(r)
       IN /\ Len(call.text) <= call.max_length => r = call.text
          /\ Len(call.text) > call.max_length
             => /\ n = call.max_length
                /\ n >= 3 /\ SubSeq(r, n - 2, n) = Ellipsis
          /\ n <= call.max_length

(***************************************************************************)
(* Properties of sanitize_input, checked under SpecSanitize                *)
(***************************************************************************)
\* A character that is neither whitespace nor a control character
Solid(c) == ~IsSpace(c) /\ c \notin Control

\* The newlines and tabs of a text, in order
Breaks(text) == SelectSeq(text, LAMBDA c : c \in {"\n", "\t"})

\* The part of a text from its first to its last solid character
Inner(text) ==
    LET at == {i \in 1..Len(text) : Solid(text[i])}
    IN IF at = {} THEN <<>>
       ELSE SubSeq(text, CHOOSE i \in at : \A j \in at : i <= j,
                         CHOOSE i \in at : \A j \in at : j <= i)

\* C19: sanitize_input is idempotent; its output has no character with a code
\* below 32 other than newline and tab and no leading or trailing whitespace;
\* None and the empty string give the empty string; the newlines and tabs
\* inside the text are preserved.
C19_SanitizedOnce ==
    (call.fn = "sanitize_input" /\ call.done)
    => LET r == call.result
       IN /\ sanitize_input(Some(r)) = r
          /\ \A i \in 1..Len(r) : r[i] \in Control => r[i] \in {"\n", "\t"}
          /\ r # <<>> => ~IsSpace(r[1]) /\ ~IsSpace(r[Len(r)])
          /\ (call.text = None \/ Val(call.text) = <<>>) => r = <<>>
          /\ call.text # None => Breaks(r) = Breaks(Inner(Val(call.text)))

\* A text with a NUL character, leading whitespace and an inner newline has
\* been sanitized, and the newline is still there
C19_Witness ==
    /\ call.fn = "sanitize_input" /\ call.done /\ call.text # None
    /\ Contains(Val(call.text), "\\0")
    /\ Val(call.text) # <<>> /\ IsSpace(Val(call.text)[1])
    /\ Len(call.result) < Len(Val(call.text))
    /\ Contains(call.result, "\n")

(***************************************************************************)
(* Properties of validate_note_content, checked under SpecValidate         *)
(***************************************************************************)
\* The text handed to validate_note_content (None has no characters)
NoteText == IF call.text = None THEN <<>> ELSE Val(call.text)

\* The checks a note fails
NoteEmpty    == Len(strip(NoteText)) = 0
NoteTooShort == Len(strip(NoteText)) < note_min_length
NoteTooLong  == Len(NoteText) > note_max_length
NoteHarmful  == Harmful(NoteText)

\* C18: validate_note_content(content) returns (True, "") exactly when the
\* trimmed content has at least 5 characters, the content has at most 5000
\* characters and no harmful pattern matches; otherwise it returns False with
\* the message of the first failing check in the order empty, too short, too
\* long, harmful.
C18_FirstFailingCheck ==
    (call.fn = "validate_note_content" /\ call.done)
    => LET r == call.result
       IN /\ r = Verdict(TRUE, "")
             <=> (~NoteTooShort /\ ~NoteTooLong /\ ~NoteHarmful)
          /\ r # Verdict(TRUE, "")
             => /\ r.valid = FALSE
                /\ r.message = IF NoteEmpty THEN "Note content cannot be empty."
                               ELSE IF NoteTooShort THEN "Note must be at least 5 characters long."
                               ELSE IF NoteTooLong THEN "Note cannot exceed 5000 characters."
                               ELSE "Note contains potentially harmful content."

\* A note that is both too long and harmful was rejected as too long
C18_Witness ==
    /\ call.fn = "validate_note_content" /\ call.done
    /\ NoteTooLong /\ NoteHarmful /\ ~NoteTooShort
    /\ call.result = Verdict(FALSE, "Note cannot exceed 5000 characters.")

(***************************************************************************)
(* Properties of the weekly draft, checked under SpecDraft                 *)
(***************************************************************************)
\* The first line of a text
FirstLine(t) == Partition(t).first

\* C21: for every subject S that draft_weekly_email writes as the first line
\* 'Subject: S' of a draft, the Summary page's parsing of the unedited draft
\* yields the subject S and a body that is a part of the draft after the
\* subject line; a draft that does not start with 'Subject:' yields the
\* subject 'Weekly Update' and the whole draft as body.
C21_SubjectRoundTrip ==
    (call.fn = "draft_weekly_email" /\ call.done)
    => LET r == call.result
           d == r.draft
       IN /\ (call.subject # None /\ FirstLine(d) = <<"S", "u", "b", "j", "e", "c", "t", ":", " ">> \o Val(call.subject))
             => /\ r.subject = Val(call.subject)
                /\ \E k \in Len(FirstLine(d)) + 1..Len(d) + 1 :
                      r.body_text = SubSeq(d, k, Len(d))
          /\ ~StartsWith(d, <<"S", "u", "b", "j", "e", "c", "t", ":">>)
             => /\ r.subject = <<"W", "e", "e", "k", "l", "y", " ",
                               "U", "p", "d", "a", "t", "e">>
                /\ r.body_text = d

(***************************************************************************)
(* Properties of the Summary page, checked under SpecSession               *)
(***************************************************************************)
\* A script run of the Summary page
SummaryStep == summaryOp' # summaryOp

\* The manager email saved for a user when one is set, otherwise the user's
\* own email
DefaultRecipient(user_id, managers, users) ==
    IF /\ user_id \in DOMAIN managers
       /\ managers[user_id].manager_email # None
       /\ Val(managers[user_id].manager_email) # <<>>
    THEN Val(managers[user_id].manager_email)
    ELSE TextOf(users[user_id].email)

\* C22: whenever the Summary page shows the recipient field and the user has
\* not edited it, its value is the manager email currently saved in Settings
\* when one is set, otherwise the user's own email.
C22_RecipientFollowsSettings ==
    [][ (SummaryStep /\ summaryOp'.shown /\ ~summaryOp'.edited /\ dbUp)
        => summaryOp'.recipient =
               DefaultRecipient(summaryOp'.user_id, manager_info', app_users') ]_vars

\* C26: after one user logged out and another logged in within the same
\* browser session, the draft and the recipient the Summary page shows are
\* not those the first user left in the session.
C26_NothingLeftForNextUser ==
    [][ (SummaryStep /\ summaryOp'.shown)
        => /\ summaryOp'.drafted_by = summaryOp'.user_id
           /\ summaryOp'.recipient_by = summaryOp'.user_id ]_vars

(***************************************************************************)
(* Properties of the session over time, checked under SpecTimeout          *)
(***************************************************************************)
\* C27: a session is treated as authenticated for at most session_timeout
\* seconds after its login: once that time has passed, require_authentication
\* returns False until the user logs in again.
C27_SessionTimesOut ==
    LET s1 == initialize_auth_session_state(session)
        last_login == app_users[Val(s1["user_id"])].last_login
    IN (is_authenticated(s1) /\ last_login # None)
           => now - Val(last_login) <= session_timeout

(***************************************************************************)
(* Properties of concurrent updates of a note, checked under SpecUpdate    *)
(***************************************************************************)
TagsOfNote(note_id) == {nt[2] : nt \in {x \in note_tags : x[1] = note_id}}

\* C25: in every reachable state each note has at most one tag association,
\* also when two update_note_with_tag calls on the same note with different
\* tag ids run at the same time.
C25_AtMostOneTag ==
    \A n \in DOMAIN notes : Cardinality(TagsOfNote(n)) <= 1

(***************************************************************************)
(* Properties of the Notes page, checked under SpecEdit                    *)
(***************************************************************************)
\* C28: when the edit form of the Notes page is saved with "No tag" selected
\* for a note that has a tag, the note has no tag association afterwards.
C28_NoTagClearsTag ==
    [][ ( /\ TagStep
          /\ tagOp'.op = "display_edit_form" /\ tagOp'.ok
          /\ tagOp'.name = NoTag
          /\ \E nt \in note_tags : nt[1] = tagOp'.note_id )
        => ~ \E nt \in note_tags' : nt[1] = tagOp'.note_id ]_vars

(***************************************************************************)
(* Properties of the queries, checked under SpecQuery                      *)
(***************************************************************************)
\* The ids of the notes of a result, in the order of the list
ResultIds(result) == [k \in DOMAIN result |-> result[k].id]

\* Each note of the result carries exactly the tags associated with it, once
ExactTags(result) ==
    \A k \in DOMAIN result :
        /\ {result[k].tags[i] : i \in DOMAIN result[k].tags}
               = TagsOfNote(result[k].id)
        /\ Len(result[k].tags) = Cardinality(TagsOfNote(result[k].id))

\* C23: get_all_notes_for_user(user_id, limit) returns the first
\* min(limit, N) of the user's N notes in descending note_date, then
\* created_at order, each note once, with exactly the tags associated with
\* it, and no note of another user.
C23_FirstNotesWithTheirTags ==
    [][ (call' # call /\ call'.fn = "get_all_notes_for_user")
        => LET c    == call'
               mine == {n \in DOMAIN notes : notes[n].user_id = c.user_id}
               ids  == ResultIds(c.result)
               got  == {ids[k] : k \in DOMAIN ids}
           IN /\ Len(ids) = IF c.limit < Cardinality(mine) THEN c.limit
                            ELSE Cardinality(mine)
              /\ Cardinality(got) = Len(ids)
              /\ got \subseteq mine
              /\ \A i, j \in DOMAIN ids : i < j => Before(ids[i], ids[j])
              /\ \A n \in mine \ got : \A m \in got : Before(m, n)
              /\ ExactTags(c.result) ]_vars

\* C24: get_weekly_notes(user_id) returns exactly the user's notes whose
\* note_date lies between the Monday on or before today and the Sunday six
\* days later, both included; the window starts on a Monday, contains today
\* and spans seven days.
C24_NotesOfTheCurrentWeek ==
    [][ (call' # call /\ call'.fn = "get_weekly_notes")
        => LET c   == call'
               ids == ResultIds(c.result)
           IN /\ c.week_start % 7 = 1
              /\ c.week_start <= c.today /\ c.today <= c.week_end
              /\ c.week_end - c.week_start + 1 = 7
              /\ {ids[k] : k \in DOMAIN ids}
                     = {n \in DOMAIN notes :
                           /\ notes[n].user_id = c.user_id
                           /\ notes[n].note_date \in c.week_start..c.week_end}
              /\ \A i, j \in DOMAIN ids : i # j => ids[i] # ids[j] ]_vars

\* A week that holds some of the user's notes and not others was read on a day
\* that is not a Monday
C24_Witness ==
    /\ call.fn = "get_weekly_notes"
    /\ call.today # call.week_start
    /\ Len(call.result) >= 2
    /\ \E n \in DOMAIN notes :
          notes[n].user_id = call.user_id /\ notes[n].note_date < call.week_start

====
